---- MODULE Spec2Model ----
(***************************************************************************)
(* NeuroAI Quest (src/app.py): the player-progress engine of the Streamlit *)
(* app -- streak, XP, level, badges -- and the handlers that drive it.     *)
(*                                                                         *)
(* st.session_state is the state: player, current_view, game_output and    *)
(* current_challenge.  `today` is the calendar date datetime.date.today()  *)
(* returns; daily_seed is the date the NeuroAIQuest object of the page on  *)
(* screen was built on.  game_output is the number of lines logged, which  *)
(* is all any handler depends on (the list is only appended to, cleared    *)
(* and displayed).                                                         *)
(*                                                                         *)
(* A date string "YYYY-MM-DD" is the tuple <<y, m, d>>; the empty string   *)
(* is <<>>.  A tuple that is no calendar date (<<2024, 2, 30>>) is a       *)
(* string date.fromisoformat rejects.  A JSON value that is no string (a   *)
(* number n, null as 0) is the one-element tuple <<n>>.                    *)
(***************************************************************************)
EXTENDS Integers, Sequences, FiniteSets, TLC

VARIABLES
    player,             \* st.session_state.player
    current_view,       \* st.session_state.current_view
    game_output,        \* len(st.session_state.game_output)
    current_challenge,  \* st.session_state.current_challenge
    today,              \* datetime.date.today(), as <<y, m, d>>
    raised,             \* the exception the last handler raised, "" if none
    daily_seed,         \* self.daily_seed of the NeuroAIQuest that built the page
    last                \* the last call made: its name and arguments

vars == <<player, current_view, game_output, current_challenge, today, raised,
          daily_seed, last>>

----------------------------------------------------------------------------
(* Bounds of the model.                                                    *)

\* In SpecOps the clock advances at most this many days past the start date.
MaxDays == 3
\* In SpecOps the operations stop being called once xp exceeds this.
MaxOpsXp == 700
\* In Spec the clock advances at most this many days past the start date.
MaxAppDays == 1
\* In Spec the menu stops opening exercises once xp exceeds this.
MaxXp == 250
\* In SpecWorld the operations are called until xp exceeds this.
MaxWorldXp == 100
\* The progression operations are called while the log holds fewer lines
\* than this (SpecOps, SpecWorld); it holds one line at the start.
MaxLog == 4
\* Random draws are made among the first MaxPick entries of a puzzle list.
MaxPick == 1
\* Stimuli of the N-back grid are drawn among the first MaxStim positions/letters.
MaxStim == 1

----------------------------------------------------------------------------
(* datetime.date: ISO strings, parsing and day arithmetic.                 *)

IsLeap(y) == y % 4 = 0 /\ (y % 100 # 0 \/ y % 400 = 0)

DaysInMonth(y, m) ==
    IF m = 2 THEN (IF IsLeap(y) THEN 29 ELSE 28)
    ELSE IF m \in {4, 6, 9, 11} THEN 30 ELSE 31

\* date.fromisoformat accepts s: s is the text of a calendar date.
IsIsoDate(s) ==
    /\ Len(s) = 3
    /\ s[1] \in 1..9999
    /\ s[2] \in 1..12
    /\ s[3] \in 1..DaysInMonth(s[1], s[2])

RECURSIVE DaysBeforeMonth(_, _)
DaysBeforeMonth(y, m) ==
    IF m <= 1 THEN 0 ELSE DaysInMonth(y, m - 1) + DaysBeforeMonth(y, m - 1)

\* date.toordinal(): days since 0001-01-01, that day being 1.
Ordinal(dt) ==
    LET p == dt[1] - 1
    IN  p * 365 + p \div 4 - p \div 100 + p \div 400
        + DaysBeforeMonth(dt[1], dt[2]) + dt[3]

\* (a - b).days
DaysBetween(a, b) == Ordinal(a) - Ordinal(b)

\* The calendar day after dt.
NextDay(dt) ==
    IF dt[3] < DaysInMonth(dt[1], dt[2]) THEN <<dt[1], dt[2], dt[3] + 1>>
    ELSE IF dt[2] < 12 THEN <<dt[1], dt[2] + 1, 1>>
    ELSE <<dt[1] + 1, 1, 1>>

\* The date on which the app is first opened.
StartDate == <<2024, 2, 27>>

----------------------------------------------------------------------------
(* The player record and the progression engine.                           *)

Worlds == 0..3

default_player ==
    [name |-> "AI Apprentice",
     xp |-> 0, level |-> 1, streak |-> 0, last_play |-> <<>>,
     high_scores |-> [w \in Worlds |-> 0], badges |-> <<>>,
     world_unlocks |-> [w \in Worlds |-> 0],
     total_sessions |-> 0]

\* x in lst, for a Python list lst
InList(x, lst) == \E i \in 1..Len(lst) : lst[i] = x

\* log(message): one more line of game_output
log(st) == [st EXCEPT !.game_output = @ + 1]

\* update_streak() with the early return of lines 92-93 removed
update_streak_noskip(st, td) ==
    LET p == st.player
        streak == IF IsIsoDate(p.last_play) /\ DaysBetween(td, p.last_play) = 1
                  THEN p.streak + 1
                  ELSE 1
    IN  log([st EXCEPT !.player = [p EXCEPT !.streak = streak,
                                            !.last_play = td,
                                            !.total_sessions = @ + 1]])

\* d[k] = v, for a Python dict d
SetKey(d, k, v) == [x \in DOMAIN d \cup {k} |-> IF x = k THEN v ELSE d[x]]

\* A one-day test that also accepts longer gaps
IsNextDayOrLater(td, last_play) == DaysBetween(td, last_play) >= 1

\* (datetime.date.today() - last_date).days == 1
IsNextDay(td, last_play) == DaysBetween(td, last_play) = 1

\* The session count left as it was
SessionsKept(p) == IF "total_sessions" \in DOMAIN p THEN p.total_sessions ELSE 0

\* player.get("total_sessions", 0) + 1
SessionsCounted(p) ==
    (IF "total_sessions" \in DOMAIN p THEN p.total_sessions ELSE 0) + 1

\* update_streak(), run on date td.  player["last_play"] is read outside the
\* try block (line 92): a record without the key raises KeyError.  Inside
\* it, fromisoformat raising on a text that is no date (or on a value that
\* is no string) is caught, and so is a missing "streak".
update_streak(st, td) ==
    LET p == st.player IN
    IF "last_play" \notin DOMAIN p THEN [st EXCEPT !.raised = "KeyError"]
    ELSE IF p.last_play = td THEN st
    ELSE
        LET streak == IF IsIsoDate(p.last_play) /\ IsNextDay(td, p.last_play)
                         /\ "streak" \in DOMAIN p
                      THEN p.streak + 1
                      ELSE 1
        IN  log([st EXCEPT !.player =
                    SetKey(SetKey(SetKey(p, "streak", streak), "last_play", td),
                           "total_sessions", SessionsCounted(p))])

\* while player["xp"] >= player["level"] * 100: player["level"] += 1
RECURSIVE LevelLoop(_, _)
LevelLoop(xp, level) ==
    IF xp >= level * 100 THEN LevelLoop(xp, level + 1) ELSE level

\* award_badge(badge) without the membership test of line 111
award_badge_always(st, badge) ==
    [log(st) EXCEPT !.player.badges = Append(@, badge),
                    !.player.xp = @ + 50]

\* award_badge(badge) followed by the leveling loop
award_badge_relevel(st, badge) ==
    IF ~InList(badge, st.player.badges)
    THEN [log(st) EXCEPT !.player.badges = Append(@, badge),
                         !.player.xp = @ + 50,
                         !.player.level = LevelLoop(st.player.xp + 50, @)]
    ELSE st

\* award_badge(badge)
award_badge(st, badge) ==
    IF ~InList(badge, st.player.badges)
    THEN [log(st) EXCEPT !.player.badges = Append(@, badge),
                         !.player.xp = @ + 50]
    ELSE st

\* The level derived from xp alone, one too low
LevelFromXp(xp, level) == xp \div 100

\* A single comparison in place of the loop
LevelOnce(xp, level) == IF xp >= level * 100 THEN level + 1 ELSE level

\* The leveling loop of gain_xp, from the level held
LevelUp(xp, level) == LevelLoop(xp, level)

\* The bonus of the variant that pays 5 per streak day
StreakBonus5(streak) == streak * 5

\* The mutated bonus: that of one day at least
StreakBonusFloor(streak) == (IF streak >= 1 THEN streak ELSE 1) * 10

\* bonus = player["streak"] * 10
StreakBonus(streak) == streak * 10

\* The high score overwritten by the latest score
HighScoreLatest(cur, pts) == pts

\* max(player["high_scores"][world], pts)
HighScore(cur, pts) == IF cur >= pts THEN cur ELSE pts

\* A badge at every level reached
IsMasterLevelAny(level) == TRUE

\* player["level"] % 5 == 0
IsMasterLevel(level) == level % 5 = 0

\* f"Level {player['level']} Master"
LevelBadge(level) == "Level " \o ToString(level) \o " Master"

\* gain_xp(pts, world): world is <<>> when omitted, <<w>> when given
gain_xp(st, pts, world) ==
    LET p     == st.player
        bonus == StreakBonus(p.streak)
        total == pts + bonus
        hs    == IF world # <<>>
                 THEN [p.high_scores EXCEPT ![world[1]] = HighScore(@, pts)]
                 ELSE p.high_scores
        \* the level-up, on the session st1 that holds the new xp and level
        Levelled(st1) ==
            IF st1.player.level > p.level
            THEN IF IsMasterLevel(st1.player.level)
                 THEN award_badge(log(st1), LevelBadge(st1.player.level))
                 ELSE log(st1)
            ELSE st1
    IN  log(Levelled([st EXCEPT
                        !.player = [p EXCEPT !.xp = @ + total,
                                             !.high_scores = hs,
                                             !.level = LevelUp(p.xp + total, @)]]))

----------------------------------------------------------------------------
(* The session state as one record, for the handlers to transform.         *)

Session ==
    [player |-> player, current_view |-> current_view,
     game_output |-> game_output, current_challenge |-> current_challenge,
     raised |-> raised, daily_seed |-> daily_seed]

\* The variables take the values of session record st.
Becomes(st) ==
    /\ player' = st.player
    /\ current_view' = st.current_view
    /\ game_output' = st.game_output
    /\ current_challenge' = st.current_challenge
    /\ raised' = st.raised
    /\ daily_seed' = st.daily_seed

NoCall == [op |-> "none", pts |-> 0, world |-> <<>>, badge |-> "", on |-> <<>>]

Call(op, pts, world, badge, td) ==
    [op |-> op, pts |-> pts, world |-> world, badge |-> badge, on |-> td]

\* st.session_state.current_challenge = {}
NoChallenge == <<>>

----------------------------------------------------------------------------
(* Python strings.  A str is the sequence of its code points: len(s), s[i] *)
(* and slices are Len(s), s[i] and SubSeq.  (Names, views, badges and      *)
(* dates, which the program only stores and compares, stay strings.)       *)

Range(seq) == {seq[i] : i \in 1..Len(seq)}

\* The str a literal of the program denotes.  The literals written in this
\* module hold printable characters of ASCII, none of them a grave accent.
Str(literal) ==
    LET Ascii ==     \* U+0020 to U+005F
            " !\"#$%&'()*+,-./0123456789:;<=>?@ABCDEFGHIJKLMNOPQRSTUVWXYZ[\\]^_"
        AsciiLower ==     \* U+0061 to U+007E
            "abcdefghijklmnopqrstuvwxyz{|}~"
    IN  [i \in 1..Len(literal) |->
            IF \E k \in 1..64 : SubSeq(Ascii, k, k) = SubSeq(literal, i, i)
            THEN 31 + CHOOSE k \in 1..64 : SubSeq(Ascii, k, k) = SubSeq(literal, i, i)
            ELSE 96 + CHOOSE k \in 1..30 :
                          SubSeq(AsciiLower, k, k) = SubSeq(literal, i, i)]

\* A list of literals
Strs(literals) == [i \in 1..Len(literals) |-> Str(literals[i])]

----------------------------------------------------------------------------
(* load_puzzles() and the other fixed tables.                              *)

letters == <<"A", "B", "C", "D", "E", "F", "G", "H", "J">>
scenarios ==
    <<"Fix a broken spaceship", "Plan a city escape from zombies",
      "Solve world hunger in 1 day", "Build AI to predict stocks",
      "Design a city for 10 million people",
      "Create peace between warring nations">>
perspectives ==
    <<"Engineer", "Mayor", "Child", "Alien", "Chef", "Soldier", "Artist",
      "Scientist", "CEO", "Farmer">>
riddles ==
    <<[riddle |-> "3 switches, 1 light. Label truth/lie/random. Find safe.",
       keys |-> Strs(<<"test", "label", "swap", "on", "off", "wait">>)],
      [riddle |-> "River: wolf, goat, cabbage. Cross all safe.",
       keys |-> Strs(<<"goat first", "back", "wolf", "cabbage", "return">>)],
      [riddle |-> "9 dots, 4 lines no lift.",
       keys |-> Strs(<<"extend", "outside", "box", "diagonal", "think">>)],
      [riddle |-> "2 guards: truth/lie. One door to freedom.",
       keys |-> Strs(<<"ask", "other", "door", "would", "say">>)],
      [riddle |-> "Poison wine among 1000 bottles. 10 testers.",
       keys |-> Strs(<<"binary", "test", "bottles", "combination", "days">>)]>>
prompt_targets ==
    <<"Cat solving quantum physics", "Robot chef inventing fusion food",
      "Dragon writing Python code", "Pirate AI trading crypto",
      "Ant colony building quantum computer",
      "Time-traveler explaining TikTok to Shakespeare">>
thinking_modes == <<"white_room", "recursive", "hypothesis_driven", "multi_modal">>
problems ==
    <<"How would you teach a dolphin to play chess?",
      "Design a government system for a colony on Mars",
      "Create a new sport that combines swimming and programming",
      "How would you explain the internet to Leonardo da Vinci?",
      "Design a house for someone who can teleport">>

----------------------------------------------------------------------------
(* The word lists of the scoring rules.                                    *)

ScoreRules ==
    {"causal", "tradeoff", "connector", "systematicity", "role_specificity",
     "output_format", "constraint_clarity", "abstraction", "creativity_bonus"}

\* The words a scoring rule looks for (lines 269-272, 335, 383-409)
ScoreWords ==
    [rule \in ScoreRules |->
        Strs(CASE rule = "causal" -> <<"because", "therefore", "however">>
               [] rule = "tradeoff" -> <<"cost", "benefit", "risk", "opportunity">>
               [] rule = "connector" -> <<"then", "next", "after", "first", "second">>
               [] rule = "systematicity" ->
                     <<"step", "first", "then", "next", "finally", "chain of thought">>
               [] rule = "role_specificity" ->
                     <<"as a", "act as", "you are", "expert", "specialist">>
               [] rule = "output_format" ->
                     <<"table", "format", "json", "outline", "bullet", "structure">>
               [] rule = "constraint_clarity" ->
                     <<"constraint", "limit", "within", "boundary">>
               [] rule = "abstraction" ->
                     <<"fundamental", "core principle", "abstract", "essence">>
               [] rule = "creativity_bonus" ->
                     <<"metaphor", "analogy", "unconventional", "creative",
                       "innovative">>)]

\* The indicator words of a thinking mode (lines 515-521)
ModeWords ==
    [mode \in Range(thinking_modes) |->
        Strs(CASE mode = "white_room" -> <<"abstract", "essence", "core">>
               [] mode = "recursive" -> <<"break down", "sub-problem", "step">>
               [] mode = "hypothesis_driven" -> <<"test", "validate", "assume">>
               [] mode = "multi_modal" -> <<"connect", "cross", "domain">>)]

----------------------------------------------------------------------------
(* The texts a player types.                                               *)

\* What the player may type into a form: nothing, white space alone (a
\* space, a tab, a carriage return, a form feed and a no-break space), two
\* short texts, of 2 characters and of 9 (the last of them U+30080, one
\* character that takes two UTF-16 units), and a long one.
LongText ==
    Str("Act as an expert: first test each label, swap on and off, then wait. "
        \o "Format a table within the limit because the risk is the abstract "
        \o "essence of an analogy; connect each step to break down the cost a b c")
TextInputs ==
    {<<>>, <<32, 9, 13, 12, 160>>, Str("ok"), Str("abcdefgh") \o <<196736>>,
     LongText}

\* The texts the scoring functions are called with (SpecText): those of the
\* forms; a plain sentence, a text of exactly 15 characters, sentences with
\* one keyword group and with two, one in capitals, a short step with a key
\* and a connector, a sentence with a constraint word, one with words of the
\* multi_modal mode, and the prompt of the spec's scenario; texts of exactly
\* 10 and 14 characters that end in U+30080; a sentence whose "risK" ends in
\* the Kelvin sign U+212A; and a text of 33 words whose only keyword is
\* "analogy", its 32 words "x" parted by spaces, tabs, carriage returns and
\* form feeds in turn.
ScoreTexts ==
    TextInputs
    \cup Range(Strs(<<"I am not sure yet", "exactly15chars!", "However it is",
                      "Because of the risk", "BECAUSE OF THE COST",
                      "then test it", "Within the core limit",
                      "We cross into another domain",
                      "Act as an expert, format your answer as a table, step by step">>))
    \cup {Str("abcdefghi") \o <<196736>>, Str("then test it ") \o <<196736>>,
          Str("weigh the ris") \o <<8490, 32, 97, 103, 97, 105, 110>>,
          Str("analogy")
             \o [i \in 1..64 |-> IF i % 2 = 0 THEN 120
                                  ELSE <<32, 9, 13, 12>>[((i \div 2) % 4) + 1]]}

----------------------------------------------------------------------------
(* The string methods.  They are tabulated once for the texts and phrases  *)
(* the specifications use and computed directly for any other argument.    *)

\* chr(c).lower(): each row of Lower holds the first and the last code point
\* of a run of letters, the step between them, and the lower-case letter of
\* the first (the others lie as far from theirs).  U+0130 alone becomes two
\* code points.
LowerChar(c) ==
    LET Mapped(runs) ==
            LET to == {c + runs[4 * r] - runs[4 * r - 3] :
                          r \in {r \in 1..(Len(runs) \div 4) :
                                    /\ runs[4 * r - 3] <= c
                                    /\ c <= runs[4 * r - 2]
                                    /\ (c - runs[4 * r - 3]) % runs[4 * r - 1] = 0}}
            IN  IF to = {} THEN <<c>> ELSE <<CHOOSE d \in to : TRUE>>
    IN  IF c = 304 THEN <<105, 775>>
        ELSE Mapped(<<
              65, 90, 1, 97, 192, 214, 1, 224, 216, 222, 1, 248, 256, 302, 2,
              257, 306, 310, 2, 307, 313, 327, 2, 314, 330, 374, 2, 331, 376,
              376, 1, 255, 377, 381, 2, 378, 385, 385, 1, 595, 386, 388, 2,
              387, 390, 390, 1, 596, 391, 391, 1, 392, 393, 394, 1, 598, 395,
              395, 1, 396, 398, 398, 1, 477, 399, 399, 1, 601, 400, 400, 1,
              603, 401, 401, 1, 402, 403, 403, 1, 608, 404, 404, 1, 611, 406,
              406, 1, 617, 407, 407, 1, 616, 408, 408, 1, 409, 412, 412, 1,
              623, 413, 413, 1, 626, 415, 415, 1, 629, 416, 420, 2, 417, 422,
              422, 1, 640, 423, 423, 1, 424, 425, 425, 1, 643, 428, 428, 1,
              429, 430, 430, 1, 648, 431, 431, 1, 432, 433, 434, 1, 650, 435,
              437, 2, 436, 439, 439, 1, 658, 440, 440, 1, 441, 444, 444, 1,
              445, 452, 452, 1, 454, 453, 453, 1, 454, 455, 455, 1, 457, 456,
              456, 1, 457, 458, 458, 1, 460, 459, 475, 2, 460, 478, 494, 2,
              479, 497, 497, 1, 499, 498, 500, 2, 499, 502, 502, 1, 405, 503,
              503, 1, 447, 504, 542, 2, 505, 544, 544, 1, 414, 546, 562, 2,
              547, 570, 570, 1, 11365, 571, 571, 1, 572, 573, 573, 1, 410,
              574, 574, 1, 11366, 577, 577, 1, 578, 579, 579, 1, 384, 580,
              580, 1, 649, 581, 581, 1, 652, 582, 590, 2, 583, 880, 882, 2,
              881, 886, 886, 1, 887, 895, 895, 1, 1011, 902, 902, 1, 940, 904,
              906, 1, 941, 908, 908, 1, 972, 910, 911, 1, 973, 913, 929, 1,
              945, 931, 939, 1, 963, 975, 975, 1, 983, 984, 1006, 2, 985,
              1012, 1012, 1, 952, 1015, 1015, 1, 1016, 1017, 1017, 1, 1010,
              1018, 1018, 1, 1019, 1021, 1023, 1, 891, 1024, 1039, 1, 1104,
              1040, 1071, 1, 1072, 1120, 1152, 2, 1121, 1162, 1214, 2, 1163,
              1216, 1216, 1, 1231, 1217, 1229, 2, 1218, 1232, 1326, 2, 1233,
              1329, 1366, 1, 1377, 4256, 4293, 1, 11520, 4295, 4295, 1, 11559,
              4301, 4301, 1, 11565, 5024, 5103, 1, 43888, 5104, 5109, 1, 5112,
              7312, 7354, 1, 4304, 7357, 7359, 1, 4349, 7680, 7828, 2, 7681,
              7838, 7838, 1, 223, 7840, 7934, 2, 7841, 7944, 7951, 1, 7936,
              7960, 7965, 1, 7952, 7976, 7983, 1, 7968, 7992, 7999, 1, 7984,
              8008, 8013, 1, 8000, 8025, 8031, 2, 8017, 8040, 8047, 1, 8032,
              8072, 8079, 1, 8064, 8088, 8095, 1, 8080, 8104, 8111, 1, 8096,
              8120, 8121, 1, 8112, 8122, 8123, 1, 8048, 8124, 8124, 1, 8115,
              8136, 8139, 1, 8050, 8140, 8140, 1, 8131, 8152, 8153, 1, 8144,
              8154, 8155, 1, 8054, 8168, 8169, 1, 8160, 8170, 8171, 1, 8058,
              8172, 8172, 1, 8165, 8184, 8185, 1, 8056, 8186, 8187, 1, 8060,
              8188, 8188, 1, 8179, 8486, 8486, 1, 969, 8490, 8490, 1, 107,
              8491, 8491, 1, 229, 8498, 8498, 1, 8526, 8544, 8559, 1, 8560,
              8579, 8579, 1, 8580, 9398, 9423, 1, 9424, 11264, 11311, 1,
              11312, 11360, 11360, 1, 11361, 11362, 11362, 1, 619, 11363,
              11363, 1, 7549, 11364, 11364, 1, 637, 11367, 11371, 2, 11368,
              11373, 11373, 1, 593, 11374, 11374, 1, 625, 11375, 11375, 1,
              592, 11376, 11376, 1, 594, 11378, 11378, 1, 11379, 11381, 11381,
              1, 11382, 11390, 11391, 1, 575, 11392, 11490, 2, 11393, 11499,
              11501, 2, 11500, 11506, 11506, 1, 11507, 42560, 42604, 2, 42561,
              42624, 42650, 2, 42625, 42786, 42798, 2, 42787, 42802, 42862, 2,
              42803, 42873, 42875, 2, 42874, 42877, 42877, 1, 7545, 42878,
              42886, 2, 42879, 42891, 42891, 1, 42892, 42893, 42893, 1, 613,
              42896, 42898, 2, 42897, 42902, 42920, 2, 42903, 42922, 42922, 1,
              614, 42923, 42923, 1, 604, 42924, 42924, 1, 609, 42925, 42925,
              1, 620, 42926, 42926, 1, 618, 42928, 42928, 1, 670, 42929,
              42929, 1, 647, 42930, 42930, 1, 669, 42931, 42931, 1, 43859,
              42932, 42946, 2, 42933, 42948, 42948, 1, 42900, 42949, 42949, 1,
              642, 42950, 42950, 1, 7566, 42951, 42953, 2, 42952, 42960,
              42960, 1, 42961, 42966, 42968, 2, 42967, 42997, 42997, 1, 42998,
              65313, 65338, 1, 65345, 66560, 66599, 1, 66600, 66736, 66771, 1,
              66776, 66928, 66938, 1, 66967, 66940, 66954, 1, 66979, 66956,
              66962, 1, 66995, 66964, 66965, 1, 67003, 68736, 68786, 1, 68800,
              71840, 71871, 1, 71872, 93760, 93791, 1, 93792, 125184, 125217,
              1, 125218
            >>)

\* s.lower(): every code point by LowerChar, but a capital sigma that ends
\* a word becomes the final sigma: the nearest code point before it that is
\* not case-ignorable is cased, and the nearest such code point after it,
\* when there is one, is not.  Cased holds the ranges of the cased code
\* points that are not case-ignorable, CaseIgnorable those of the
\* case-ignorable ones.
LowerOf(s) ==
    LET In(i, ranges) ==
            \E r \in 1..(Len(ranges) \div 2) :
               ranges[2 * r - 1] <= s[i] /\ s[i] <= ranges[2 * r]
        final_sigma(a, Cased, CaseIgnorable) ==
            /\ \E j \in 1..(a - 1) :
                  /\ In(j, Cased)
                  /\ \A k \in (j + 1)..(a - 1) : In(k, CaseIgnorable)
            /\ \A j \in (a + 1)..Len(s) :
                  In(j, Cased) => \E k \in (a + 1)..(j - 1) : ~In(k, CaseIgnorable)
        RECURSIVE span(_, _)
        span(a, b) ==
            IF a > b THEN <<>>
            ELSE IF a < b
            THEN span(a, (a + b) \div 2) \o span((a + b) \div 2 + 1, b)
            ELSE IF s[a] # 931 THEN LowerChar(s[a])
            ELSE IF final_sigma(a,
                      <<
                        65, 90, 97, 122, 170, 170, 181, 181, 186, 186, 192,
                        214, 216, 246, 248, 442, 444, 447, 452, 659, 661, 687,
                        880, 883, 886, 887, 891, 893, 895, 895, 902, 902, 904,
                        906, 908, 908, 910, 929, 931, 1013, 1015, 1153, 1162,
                        1327, 1329, 1366, 1376, 1416, 4256, 4293, 4295, 4295,
                        4301, 4301, 4304, 4346, 4349, 4351, 5024, 5109, 5112,
                        5117, 7296, 7304, 7312, 7354, 7357, 7359, 7424, 7467,
                        7531, 7543, 7545, 7578, 7680, 7957, 7960, 7965, 7968,
                        8005, 8008, 8013, 8016, 8023, 8025, 8025, 8027, 8027,
                        8029, 8029, 8031, 8061, 8064, 8116, 8118, 8124, 8126,
                        8126, 8130, 8132, 8134, 8140, 8144, 8147, 8150, 8155,
                        8160, 8172, 8178, 8180, 8182, 8188, 8450, 8450, 8455,
                        8455, 8458, 8467, 8469, 8469, 8473, 8477, 8484, 8484,
                        8486, 8486, 8488, 8488, 8490, 8493, 8495, 8500, 8505,
                        8505, 8508, 8511, 8517, 8521, 8526, 8526, 8544, 8575,
                        8579, 8580, 9398, 9449, 11264, 11387, 11390, 11492,
                        11499, 11502, 11506, 11507, 11520, 11557, 11559,
                        11559, 11565, 11565, 42560, 42605, 42624, 42651,
                        42786, 42863, 42865, 42887, 42891, 42894, 42896,
                        42954, 42960, 42961, 42963, 42963, 42965, 42969,
                        42997, 42998, 43002, 43002, 43824, 43866, 43872,
                        43880, 43888, 43967, 64256, 64262, 64275, 64279,
                        65313, 65338, 65345, 65370, 66560, 66639, 66736,
                        66771, 66776, 66811, 66928, 66938, 66940, 66954,
                        66956, 66962, 66964, 66965, 66967, 66977, 66979,
                        66993, 66995, 67001, 67003, 67004, 68736, 68786,
                        68800, 68850, 71840, 71903, 93760, 93823, 119808,
                        119892, 119894, 119964, 119966, 119967, 119970,
                        119970, 119973, 119974, 119977, 119980, 119982,
                        119993, 119995, 119995, 119997, 120003, 120005,
                        120069, 120071, 120074, 120077, 120084, 120086,
                        120092, 120094, 120121, 120123, 120126, 120128,
                        120132, 120134, 120134, 120138, 120144, 120146,
                        120485, 120488, 120512, 120514, 120538, 120540,
                        120570, 120572, 120596, 120598, 120628, 120630,
                        120654, 120656, 120686, 120688, 120712, 120714,
                        120744, 120746, 120770, 120772, 120779, 122624,
                        122633, 122635, 122654, 125184, 125251, 127280,
                        127305, 127312, 127337, 127344, 127369
                      >>,
                      <<
                        39, 39, 46, 46, 58, 58, 94, 94, 96, 96, 168, 168, 173,
                        173, 175, 175, 180, 180, 183, 184, 688, 879, 884, 885,
                        890, 890, 900, 901, 903, 903, 1155, 1161, 1369, 1369,
                        1375, 1375, 1425, 1469, 1471, 1471, 1473, 1474, 1476,
                        1477, 1479, 1479, 1524, 1524, 1536, 1541, 1552, 1562,
                        1564, 1564, 1600, 1600, 1611, 1631, 1648, 1648, 1750,
                        1757, 1759, 1768, 1770, 1773, 1807, 1807, 1809, 1809,
                        1840, 1866, 1958, 1968, 2027, 2037, 2042, 2042, 2045,
                        2045, 2070, 2093, 2137, 2139, 2184, 2184, 2192, 2193,
                        2200, 2207, 2249, 2306, 2362, 2362, 2364, 2364, 2369,
                        2376, 2381, 2381, 2385, 2391, 2402, 2403, 2417, 2417,
                        2433, 2433, 2492, 2492, 2497, 2500, 2509, 2509, 2530,
                        2531, 2558, 2558, 2561, 2562, 2620, 2620, 2625, 2626,
                        2631, 2632, 2635, 2637, 2641, 2641, 2672, 2673, 2677,
                        2677, 2689, 2690, 2748, 2748, 2753, 2757, 2759, 2760,
                        2765, 2765, 2786, 2787, 2810, 2815, 2817, 2817, 2876,
                        2876, 2879, 2879, 2881, 2884, 2893, 2893, 2901, 2902,
                        2914, 2915, 2946, 2946, 3008, 3008, 3021, 3021, 3072,
                        3072, 3076, 3076, 3132, 3132, 3134, 3136, 3142, 3144,
                        3146, 3149, 3157, 3158, 3170, 3171, 3201, 3201, 3260,
                        3260, 3263, 3263, 3270, 3270, 3276, 3277, 3298, 3299,
                        3328, 3329, 3387, 3388, 3393, 3396, 3405, 3405, 3426,
                        3427, 3457, 3457, 3530, 3530, 3538, 3540, 3542, 3542,
                        3633, 3633, 3636, 3642, 3654, 3662, 3761, 3761, 3764,
                        3772, 3782, 3782, 3784, 3789, 3864, 3865, 3893, 3893,
                        3895, 3895, 3897, 3897, 3953, 3966, 3968, 3972, 3974,
                        3975, 3981, 3991, 3993, 4028, 4038, 4038, 4141, 4144,
                        4146, 4151, 4153, 4154, 4157, 4158, 4184, 4185, 4190,
                        4192, 4209, 4212, 4226, 4226, 4229, 4230, 4237, 4237,
                        4253, 4253, 4348, 4348, 4957, 4959, 5906, 5908, 5938,
                        5939, 5970, 5971, 6002, 6003, 6068, 6069, 6071, 6077,
                        6086, 6086, 6089, 6099, 6103, 6103, 6109, 6109, 6155,
                        6159, 6211, 6211, 6277, 6278, 6313, 6313, 6432, 6434,
                        6439, 6440, 6450, 6450, 6457, 6459, 6679, 6680, 6683,
                        6683, 6742, 6742, 6744, 6750, 6752, 6752, 6754, 6754,
                        6757, 6764, 6771, 6780, 6783, 6783, 6823, 6823, 6832,
                        6862, 6912, 6915, 6964, 6964, 6966, 6970, 6972, 6972,
                        6978, 6978, 7019, 7027, 7040, 7041, 7074, 7077, 7080,
                        7081, 7083, 7085, 7142, 7142, 7144, 7145, 7149, 7149,
                        7151, 7153, 7212, 7219, 7222, 7223, 7288, 7293, 7376,
                        7378, 7380, 7392, 7394, 7400, 7405, 7405, 7412, 7412,
                        7416, 7417, 7468, 7530, 7544, 7544, 7579, 7679, 8125,
                        8125, 8127, 8129, 8141, 8143, 8157, 8159, 8173, 8175,
                        8189, 8190, 8203, 8207, 8216, 8217, 8228, 8228, 8231,
                        8231, 8234, 8238, 8288, 8292, 8294, 8303, 8305, 8305,
                        8319, 8319, 8336, 8348, 8400, 8432, 11388, 11389,
                        11503, 11505, 11631, 11631, 11647, 11647, 11744,
                        11775, 11823, 11823, 12293, 12293, 12330, 12333,
                        12337, 12341, 12347, 12347, 12441, 12446, 12540,
                        12542, 40981, 40981, 42232, 42237, 42508, 42508,
                        42607, 42610, 42612, 42621, 42623, 42623, 42652,
                        42655, 42736, 42737, 42752, 42785, 42864, 42864,
                        42888, 42890, 42994, 42996, 43000, 43001, 43010,
                        43010, 43014, 43014, 43019, 43019, 43045, 43046,
                        43052, 43052, 43204, 43205, 43232, 43249, 43263,
                        43263, 43302, 43309, 43335, 43345, 43392, 43394,
                        43443, 43443, 43446, 43449, 43452, 43453, 43471,
                        43471, 43493, 43494, 43561, 43566, 43569, 43570,
                        43573, 43574, 43587, 43587, 43596, 43596, 43632,
                        43632, 43644, 43644, 43696, 43696, 43698, 43700,
                        43703, 43704, 43710, 43711, 43713, 43713, 43741,
                        43741, 43756, 43757, 43763, 43764, 43766, 43766,
                        43867, 43871, 43881, 43883, 44005, 44005, 44008,
                        44008, 44013, 44013, 64286, 64286, 64434, 64450,
                        65024, 65039, 65043, 65043, 65056, 65071, 65106,
                        65106, 65109, 65109, 65279, 65279, 65287, 65287,
                        65294, 65294, 65306, 65306, 65342, 65342, 65344,
                        65344, 65392, 65392, 65438, 65439, 65507, 65507,
                        65529, 65531, 66045, 66045, 66272, 66272, 66422,
                        66426, 67456, 67461, 67463, 67504, 67506, 67514,
                        68097, 68099, 68101, 68102, 68108, 68111, 68152,
                        68154, 68159, 68159, 68325, 68326, 68900, 68903,
                        69291, 69292, 69446, 69456, 69506, 69509, 69633,
                        69633, 69688, 69702, 69744, 69744, 69747, 69748,
                        69759, 69761, 69811, 69814, 69817, 69818, 69821,
                        69821, 69826, 69826, 69837, 69837, 69888, 69890,
                        69927, 69931, 69933, 69940, 70003, 70003, 70016,
                        70017, 70070, 70078, 70089, 70092, 70095, 70095,
                        70191, 70193, 70196, 70196, 70198, 70199, 70206,
                        70206, 70367, 70367, 70371, 70378, 70400, 70401,
                        70459, 70460, 70464, 70464, 70502, 70508, 70512,
                        70516, 70712, 70719, 70722, 70724, 70726, 70726,
                        70750, 70750, 70835, 70840, 70842, 70842, 70847,
                        70848, 70850, 70851, 71090, 71093, 71100, 71101,
                        71103, 71104, 71132, 71133, 71219, 71226, 71229,
                        71229, 71231, 71232, 71339, 71339, 71341, 71341,
                        71344, 71349, 71351, 71351, 71453, 71455, 71458,
                        71461, 71463, 71467, 71727, 71735, 71737, 71738,
                        71995, 71996, 71998, 71998, 72003, 72003, 72148,
                        72151, 72154, 72155, 72160, 72160, 72193, 72202,
                        72243, 72248, 72251, 72254, 72263, 72263, 72273,
                        72278, 72281, 72283, 72330, 72342, 72344, 72345,
                        72752, 72758, 72760, 72765, 72767, 72767, 72850,
                        72871, 72874, 72880, 72882, 72883, 72885, 72886,
                        73009, 73014, 73018, 73018, 73020, 73021, 73023,
                        73029, 73031, 73031, 73104, 73105, 73109, 73109,
                        73111, 73111, 73459, 73460, 78896, 78904, 92912,
                        92916, 92976, 92982, 92992, 92995, 94031, 94031,
                        94095, 94111, 94176, 94177, 94179, 94180, 110576,
                        110579, 110581, 110587, 110589, 110590, 113821,
                        113822, 113824, 113827, 118528, 118573, 118576,
                        118598, 119143, 119145, 119155, 119170, 119173,
                        119179, 119210, 119213, 119362, 119364, 121344,
                        121398, 121403, 121452, 121461, 121461, 121476,
                        121476, 121499, 121503, 121505, 121519, 122880,
                        122886, 122888, 122904, 122907, 122913, 122915,
                        122916, 122918, 122922, 123184, 123197, 123566,
                        123566, 123628, 123631, 125136, 125142, 125252,
                        125259, 127995, 127999, 917505, 917505, 917536,
                        917631, 917760, 917999
                      >>)
                 THEN <<962>> ELSE <<963>>
    IN  span(1, Len(s))

LowerTable == [t \in ScoreTexts |-> LowerOf(t)]

\* s.lower()
lower(s) ==
    LET From(table) == IF s \in DOMAIN table THEN table[s] ELSE LowerOf(s)
    IN  From(LowerTable)

\* Every phrase a scoring rule looks for.
Phrases ==
    UNION {Range(ScoreWords[rule]) : rule \in ScoreRules}
    \cup UNION {Range(ModeWords[m]) : m \in Range(thinking_modes)}
    \cup UNION {Range(puzzle.keys) : puzzle \in Range(riddles)}

FindIn(s, key) ==
    \E i \in 1..(Len(s) - Len(key) + 1) : SubSeq(s, i, i + Len(key) - 1) = key

LoweredInputs == {LowerOf(t) : t \in ScoreTexts}

FindTable == [s \in LoweredInputs, key \in Phrases |-> FindIn(s, key)]

\* key in s
Contains(s, key) ==
    LET From(table) ==
            IF <<s, key>> \in DOMAIN table THEN table[s, key] ELSE FindIn(s, key)
    IN  From(FindTable)

\* any(word in s for word in words)
ContainsAny(s, words) == \E i \in 1..Len(words) : Contains(s, words[i])

\* chr(c).isspace(): the white space str.split() and str.strip() act on
IsSpace(c) ==
    \/ c \in 9..13 \/ c \in 28..32 \/ c \in {133, 160, 5760}
    \/ c \in 8192..8202 \/ c \in {8232, 8233, 8239, 8287, 12288}

CountWords(s) ==
    Cardinality({i \in 1..Len(s) : ~IsSpace(s[i]) /\ (i = 1 \/ IsSpace(s[i - 1]))})

WordTable == [t \in ScoreTexts |-> CountWords(t)]

\* len(s.split()): the maximal runs of code points that are no white space
WordCount(s) ==
    LET From(table) == IF s \in DOMAIN table THEN table[s] ELSE CountWords(s)
    IN  From(WordTable)

\* s.strip() == ""
IsBlank(s) == \A i \in 1..Len(s) : IsSpace(s[i])

Min(a, b) == IF a <= b THEN a ELSE b
Max(a, b) == IF a >= b THEN a ELSE b

----------------------------------------------------------------------------
(* Python floats: IEEE 754 binary64, rounding to nearest, ties to even.    *)
(* A positive float is the record [sig |-> its 53-bit significand, exp |-> *)
(* its exponent], the significand in four digits of base 2^16, the first   *)
(* from 16 to 31: the float float.hex() writes 0x1.c000000000001p+3 is     *)
(* [sig |-> <<28, 0, 0, 1>>, exp |-> 3], 14.000000000000002.  0.0 is       *)
(* FloatZero.  The operations are those the program applies, on floats     *)
(* from 0.0 to 2^30 and integers from 0 to 2^14, which hold every number   *)
(* it applies them to.                                                     *)

FloatZero == [sig |-> <<0, 0, 0, 0>>, exp |-> 0]

\* The float nearest to m * 2^unit, or to a number above it by less than
\* 2^unit when sticky holds; m is given by its digits of base 2^16, the
\* first of them not 0.
FloatRound(m, unit, sticky) ==
    LET \* m[1] has top binary digits; the 53 leading binary digits of m end
        \* r binary digits above the end of m[4 + off]
        top == CHOOSE l \in 1..16 : m[1] \div (2 ^ (l - 1)) = 1
        off == IF top >= 5 THEN 0 ELSE 1
        r   == top - 5 + 16 * off
        M(i) == IF i >= 1 /\ i <= Len(m) THEN m[i] ELSE 0
        kept == [i \in 1..4 |->
                    (M(i - 1 + off) % (2 ^ r)) * (2 ^ (16 - r)) + M(i + off) \div (2 ^ r)]
        \* the digits below them: the first alone makes half a unit
        tail == (M(4 + off) % (2 ^ r)) * 65536 + M(5 + off)
        half == 2 ^ (r + 15)
        more == \/ sticky
                \/ tail % half # 0
                \/ \E i \in (6 + off)..Len(m) : m[i] # 0
        \* to nearest, a tie to the even one
        up  == tail \div half = 1 /\ (more \/ kept[4] % 2 = 1)
        s[i \in 1..4] ==
            kept[i] + (IF i = 4 THEN (IF up THEN 1 ELSE 0) ELSE s[i + 1] \div 65536)
        e   == unit + top + 16 * (Len(m) - 1) - 1
    IN  IF s[1] = 32 THEN [sig |-> <<16, 0, 0, 0>>, exp |-> e + 1]
        ELSE [sig |-> <<s[1], s[2] % 65536, s[3] % 65536, s[4] % 65536>>, exp |-> e]

\* a / b for integers a >= 0 and b > 0
FloatDiv(a, b) ==
    IF a = 0 THEN FloatZero
    ELSE
        LET \* 2^e <= a / b < 2^(e + 1)
            e   == IF a >= b
                   THEN CHOOSE k \in 0..30 :
                           a \div (2 ^ k) >= b /\ a \div (2 ^ (k + 1)) < b
                   ELSE 0 - (CHOOSE k \in 1..30 :
                               a * (2 ^ k) >= b /\ a * (2 ^ (k - 1)) < b)
            num == IF e < 0 THEN a * (2 ^ (0 - e)) ELSE a
            den == IF e > 0 THEN b * (2 ^ e) ELSE b
            \* long division: rem[i] is what is left after i digits
            rem[i \in 0..4] ==
                IF i = 0 THEN num - den ELSE (65536 * rem[i - 1]) % den
        IN  FloatRound(<<1>> \o [i \in 1..4 |-> (65536 * rem[i - 1]) \div den],
                       e - 64, rem[4] # 0)

\* x * k for a float x and an integer k >= 0
FloatTimes(x, k) ==
    IF x = FloatZero \/ k = 0 THEN FloatZero
    ELSE
        LET \* digit by digit from the last: p[i] holds digit i and what it carries
            p[i \in 1..5] ==
                IF i = 5 THEN 0 ELSE x.sig[i] * k + p[i + 1] \div 65536
            low == [i \in 1..4 |-> p[i] % 65536]
        IN  FloatRound(IF p[1] \div 65536 = 0 THEN low ELSE <<p[1] \div 65536>> \o low,
                       x.exp - 52, FALSE)

\* x + k for a float x and an integer k >= 0
FloatPlus(x, k) ==
    IF k = 0 THEN x
    ELSE IF x = FloatZero THEN FloatDiv(k, 1)
    ELSE
        LET \* k in units of 2^(x.exp - 52): two digits, then whole digits of zeros
            by   == 52 - x.exp
            part == k * (2 ^ (by % 16))
            int  == <<part \div 65536, part % 65536>> \o [i \in 1..(by \div 16) |-> 0]
            n    == Max(4, Len(int)) + 1
            a(i) == IF i > n - 4 THEN x.sig[i - (n - 4)] ELSE 0
            b(i) == IF i > n - Len(int) THEN int[i - (n - Len(int))] ELSE 0
            \* digit by digit from the last: t[i] holds digit i and what it carries
            t[i \in 1..(n + 1)] ==
                IF i = n + 1 THEN 0 ELSE a(i) + b(i) + t[i + 1] \div 65536
            sum  == [i \in 1..n |-> t[i] % 65536]
            lead == CHOOSE i \in 1..n : sum[i] # 0 /\ \A j \in 1..(i - 1) : sum[j] = 0
        IN  FloatRound(SubSeq(sum, lead, n), x.exp - 52, FALSE)

\* int(x): the whole part of the float x
FloatFloor(x) ==
    IF x = FloatZero \/ x.exp < 0 THEN 0
    ELSE IF x.exp <= 4 THEN x.sig[1] \div (2 ^ (4 - x.exp))
    ELSE IF x.exp <= 20
         THEN (65536 * x.sig[1] + x.sig[2]) \div (2 ^ (20 - x.exp))
    ELSE (65536 * x.sig[1] + x.sig[2]) * (2 ^ (x.exp - 20))
             + x.sig[3] \div (2 ^ (36 - x.exp))

\* int((score / den) * 100)
IntPercent(score, den) == FloatFloor(FloatTimes(FloatDiv(score, den), 100))

\* int(((score / den) * 100) * 2)
IntPercentTwice(score, den) ==
    FloatFloor(FloatTimes(FloatTimes(FloatDiv(score, den), 100), 2))

----------------------------------------------------------------------------
(* Random draws.                                                           *)

\* random.choice(lst), among the first MaxPick entries
Choices(lst) == {lst[i] : i \in 1..Min(MaxPick, Len(lst))}

\* random.sample(lst, k): k distinct entries of lst in any order; those
\* whose i-th entry stands less than MaxPick places from the i-th of lst
\* (the first k entries as they stand for MaxPick = 1, every sample once
\* MaxPick reaches Len(lst))
Samples(lst, k) ==
    LET near(i) == {j \in 1..Len(lst) : j - i < MaxPick /\ i - j < MaxPick}
        \* the choices of the first n places
        idx[n \in 0..k] ==
            IF n = 0 THEN {<<>>}
            ELSE UNION {{Append(s, j) : j \in near(n) \ {s[i] : i \in 1..Len(s)}} :
                            s \in idx[n - 1]}
    IN  {[i \in 1..k |-> lst[s[i]]] : s \in idx[k]}

\* The entries of lst at the indexes idx, in that order
Pick(lst, idx) == [i \in 1..Len(idx) |-> lst[idx[i]]]

----------------------------------------------------------------------------
(* Session plumbing.                                                       *)

\* initialize_session_state() on a session that holds every key: only
\* update_streak() acts
initialize_session_state(st, td) == update_streak(st, td)

\* main(): a NeuroAIQuest is built, with the day's date as its daily_seed,
\* and initialize_session_state() is called
main(st, td) == initialize_session_state([st EXCEPT !.daily_seed = td], td)

\* go_to_menu_after_delay()
go_to_menu_after_delay(st) == [st EXCEPT !.current_view = "results_summary"]

\* n calls of log
logn(st, n) == [st EXCEPT !.game_output = @ + n]

----------------------------------------------------------------------------
(* World 2: View Switch.                                                   *)

view_switch_init(st, world_level, scenario, views) ==
    LET num_views == Min(3 + world_level \div 2, 6)
    IN  [logn(st, 3) EXCEPT
            !.current_challenge =
                [mode |-> "view_switch", world_index |-> 1,
                 scenario |-> scenario, views |-> views,
                 num_views |-> num_views, current_view_index |-> 0,
                 score |-> 0, max_per_view |-> 25, responses |-> 0],
            !.current_view = "view_switch_game"]

\* The mutated points: one bonus for any keyword, at most 20
ViewPointsOneBonus(response_text, max_per_view) ==
    IF Len(response_text) < 10 THEN 5
    ELSE LET low == lower(response_text)
         IN  Min(10 + (IF WordCount(response_text) > 15 THEN 5 ELSE 0)
                    + (IF ContainsAny(low, ScoreWords["causal"] \o ScoreWords["tradeoff"])
                       THEN 5 ELSE 0),
                 20)

\* The points of one perspective response (lines 262-273)
ViewPoints(response_text, max_per_view) ==
    LET Bonus(low, words) == IF ContainsAny(low, words) THEN 5 ELSE 0
        Points(low) ==
            Min(10 + (IF WordCount(response_text) > 15 THEN 5 ELSE 0)
                   + Bonus(low, ScoreWords["causal"])
                   + Bonus(low, ScoreWords["tradeoff"]),
                max_per_view)
    IN  IF Len(response_text) < 10 THEN 5 ELSE Points(lower(response_text))

view_switch_end(st) ==
    LET c   == st.current_challenge
        den == c.num_views * c.max_per_view
        \* final_score_percent = min(100, score / den * 100), compared exactly
        pct == Min(100, IntPercent(c.score, den))
        over(t) == c.score * 100 > t * den
        Badged(st1) ==
            IF over(85) THEN award_badge(st1, "Perspective Polymath")
            ELSE IF over(70) THEN award_badge(st1, "Multi-View Thinker")
            ELSE st1
    IN  go_to_menu_after_delay(log(Badged(gain_xp(log(st), pct, <<c.world_index>>))))

view_switch_next(st, response_text) ==
    LET c == st.current_challenge
        \* the end or the next view, on the session st1 the response leaves
        Advance(st1) ==
            IF c.current_view_index >= c.num_views
            THEN view_switch_end(st1)
            ELSE [st1 EXCEPT !.current_challenge.current_view_index = @ + 1]
    IN  Advance(IF c.current_view_index > 0
                THEN [log(st) EXCEPT
                        !.current_challenge.score =
                            @ + ViewPoints(response_text, c.max_per_view),
                        !.current_challenge.responses = @ + 1]
                ELSE st)

----------------------------------------------------------------------------
(* World 3: Step Logic.                                                    *)

step_logic_init(st, world_level, puzzle) ==
    LET num_steps == Min(3 + world_level \div 2, 6)
    IN  [logn(st, 3) EXCEPT
            !.current_challenge =
                [mode |-> "step_logic", world_index |-> 2,
                 riddle |-> puzzle.riddle, solution_keys |-> puzzle.keys,
                 num_steps |-> num_steps, current_step |-> 0,
                 steps_score |-> 0, key_hits |-> 0, responses |-> 0],
            !.current_view = "step_logic_game"]

\* The solution keys found in one step (lines 330-333)
KeyHits(response_text, solution_keys) ==
    Cardinality({i \in 1..Len(solution_keys) :
                    Contains(lower(response_text), solution_keys[i])})

\* The mutated points: the base only for a step longer than 5 characters
StepPointsLongOnly(response_text, solution_keys) ==
    (IF Len(response_text) > 5 THEN 10 ELSE 0)
       + 5 * KeyHits(response_text, solution_keys)
       + (IF ContainsAny(lower(response_text), ScoreWords["connector"])
          THEN 3 ELSE 0)

\* The points of one step (lines 327-337)
StepPoints(response_text, solution_keys) ==
    10 + 5 * KeyHits(response_text, solution_keys)
       + (IF ContainsAny(lower(response_text), ScoreWords["connector"])
          THEN 3 ELSE 0)

step_logic_end(st) ==
    LET c      == st.current_challenge
        nkeys  == Len(c.solution_keys)
        \* int(min(150, base_score + key_bonus)), key_bonus the float
        \* (key_hits / nkeys) * 50, or the integer 0 when there are no keys
        final  == IF nkeys > 0
                  THEN Min(150, FloatFloor(FloatPlus(
                                    FloatTimes(FloatDiv(c.key_hits, nkeys), 50),
                                    c.steps_score)))
                  ELSE Min(150, c.steps_score)
        Badged(st1) ==
            IF c.key_hits = nkeys THEN award_badge(st1, "Logic Legend")
            ELSE IF c.key_hits * 10 >= nkeys * 7
                 THEN award_badge(st1, "Analytical Thinker")
            ELSE st1
    IN  go_to_menu_after_delay(log(Badged(gain_xp(logn(st, 4), final, <<c.world_index>>))))

\* The mutated handler: the session ends one step early
step_logic_next_early(st, response_text) ==
    LET c == st.current_challenge
        Advance(st1) ==
            IF c.current_step + 1 >= c.num_steps
            THEN step_logic_end(st1)
            ELSE [st1 EXCEPT !.current_challenge.current_step = @ + 1]
    IN  Advance(IF c.current_step > 0
                THEN [log(st) EXCEPT
                        !.current_challenge.key_hits =
                            @ + KeyHits(response_text, c.solution_keys),
                        !.current_challenge.steps_score =
                            @ + StepPoints(response_text, c.solution_keys),
                        !.current_challenge.responses = @ + 1]
                ELSE st)

step_logic_next(st, response_text) ==
    LET c == st.current_challenge
        \* the end or the next step, on the session st1 the response leaves
        Advance(st1) ==
            IF c.current_step >= c.num_steps
            THEN step_logic_end(st1)
            ELSE [st1 EXCEPT !.current_challenge.current_step = @ + 1]
    IN  Advance(IF c.current_step > 0
                THEN [log(st) EXCEPT
                        !.current_challenge.key_hits =
                            @ + KeyHits(response_text, c.solution_keys),
                        !.current_challenge.steps_score =
                            @ + StepPoints(response_text, c.solution_keys),
                        !.current_challenge.responses = @ + 1]
                ELSE st)

----------------------------------------------------------------------------
(* World 4: AI Play.                                                       *)

\* The mutated scores: a creativity bonus of at most 20
PromptScoresCapped(prompt) ==
    LET hit(low, words, pts) == IF ContainsAny(low, words) THEN pts ELSE 0
        Scores(low) ==
            [systematicity |-> hit(low, ScoreWords["systematicity"], 30),
             role_specificity |-> hit(low, ScoreWords["role_specificity"], 30),
             output_format |-> hit(low, ScoreWords["output_format"], 30),
             constraint_clarity |-> hit(low, ScoreWords["constraint_clarity"], 15),
             abstraction |-> hit(low, ScoreWords["abstraction"], 15),
             creativity_bonus |->
                Min(20, (IF WordCount(prompt) > 30 THEN 10 ELSE 0)
                        + hit(low, ScoreWords["creativity_bonus"], 20))]
    IN  Scores(lower(prompt))

\* evaluate_prompt_advanced(prompt): the scores dictionary
PromptScores(prompt) ==
    LET hit(low, words, pts) == IF ContainsAny(low, words) THEN pts ELSE 0
        Scores(low) ==
            [systematicity |->
                hit(low, ScoreWords["systematicity"], 30),
             role_specificity |->
                hit(low, ScoreWords["role_specificity"], 30),
             output_format |->
                hit(low, ScoreWords["output_format"], 30),
             constraint_clarity |->
                hit(low, ScoreWords["constraint_clarity"], 15),
             abstraction |->
                hit(low, ScoreWords["abstraction"], 15),
             creativity_bonus |->
                (IF WordCount(prompt) > 30 THEN 10 ELSE 0)
                + hit(low, ScoreWords["creativity_bonus"], 20)]
    IN  Scores(lower(prompt))

PromptCategories ==
    {"systematicity", "role_specificity", "output_format", "constraint_clarity",
     "abstraction", "creativity_bonus"}

RECURSIVE SumOver(_, _)
\* sum(f[k] for k in S)
SumOver(f, S) ==
    IF S = {} THEN 0
    ELSE LET k == CHOOSE x \in S : TRUE IN f[k] + SumOver(f, S \ {k})

\* evaluate_prompt_advanced(prompt): the total returned
evaluate_prompt_advanced(prompt) == Min(150, SumOver(PromptScores(prompt), PromptCategories))

ai_play_init(st, world_level, target) ==
    [logn(st, 4) EXCEPT
        !.current_challenge = [mode |-> "ai_play", world_index |-> 3, target |-> target],
        !.current_view = "ai_play_game"]

ai_play_end(st, prompt) ==
    LET c == st.current_challenge IN
    IF Len(prompt) < 10
    THEN go_to_menu_after_delay(gain_xp(log(st), 20, <<c.world_index>>))
    ELSE
        LET \* the evaluation shown, the XP and the badge of total_score
            Scored(scores, total_score) ==
                LET shown == Cardinality({k \in PromptCategories : scores[k] > 0})
                    Badged(st1) ==
                        IF total_score > 130 THEN award_badge(st1, "Prompt God")
                        ELSE IF total_score > 110
                             THEN award_badge(st1, "Prompt Architect")
                        ELSE IF total_score > 85
                             THEN award_badge(st1, "Prompt Engineer")
                        ELSE st1
                IN  go_to_menu_after_delay(log(Badged(
                        gain_xp(logn(st, 1 + shown + 3), total_score,
                                <<c.world_index>>))))
        IN  Scored(PromptScores(prompt), evaluate_prompt_advanced(prompt))

----------------------------------------------------------------------------
(* Meta-cognition training.  selected_modes holds the mode names; their    *)
(* descriptions are only displayed.                                        *)

meta_cognition_init(st, problem, selected_modes) ==
    [logn(st, 3) EXCEPT
        !.current_challenge =
            [mode |-> "meta_cognition", problem |-> problem,
             selected_modes |-> selected_modes, current_mode_index |-> 0,
             total_score |-> 0, responses |-> 0],
        !.current_view = "meta_cognition_game"]

\* The mutated points: 10 for a reflection of at most 15 characters, and the
\* keyword bonus for every length
MetaPointsShortBase10(response_text, mode) ==
    (IF Len(response_text) <= 15 THEN 10 ELSE 25)
    + (IF mode \in DOMAIN ModeWords
          /\ ContainsAny(lower(response_text), ModeWords[mode])
       THEN 10 ELSE 0)

\* The points of one reflection (lines 507-522); a mode that is none of the
\* four earns no bonus
MetaPoints(response_text, mode) ==
    IF Len(response_text) < 15 THEN 15
    ELSE 25 + (IF mode \in DOMAIN ModeWords
                     /\ ContainsAny(lower(response_text), ModeWords[mode])
               THEN 10 ELSE 0)

meta_cognition_end(st) ==
    LET c   == st.current_challenge
        Badged(st1) ==
            IF c.total_score > 80 THEN award_badge(st1, "Meta-Thinker") ELSE st1
    IN  go_to_menu_after_delay(log(Badged(gain_xp(log(st), c.total_score, <<>>))))

meta_cognition_next(st, response_text) ==
    LET c == st.current_challenge
        \* the end or the next mode, on the session st1 the response leaves
        Advance(st1) ==
            IF c.current_mode_index >= Len(c.selected_modes)
            THEN meta_cognition_end(st1)
            ELSE [st1 EXCEPT !.current_challenge.current_mode_index = @ + 1]
    IN  Advance(IF c.current_mode_index > 0
                THEN [log(st) EXCEPT
                        !.current_challenge.total_score =
                            @ + MetaPoints(response_text,
                                           c.selected_modes[c.current_mode_index]),
                        !.current_challenge.responses = @ + 1]
                ELSE st)

----------------------------------------------------------------------------
(* World 1: Memory Boost (dual N-back).                                    *)

memory_boost_init(st, world_level) ==
    [logn(st, 2) EXCEPT
        !.current_challenge =
            [mode |-> "memory_boost", world_index |-> 0,
             n |-> Max(2, world_level \div 3 + 2),
             trials |-> Min(15 + world_level * 2, 30),
             current_trial |-> 0, score |-> 0,
             pos_hist |-> <<>>, let_hist |-> <<>>, start_time |-> "None"],
        !.current_view = "memory_boost_game"]

\* hist[-1-n] raises IndexError: the list holds fewer than n + 1 entries
BadIndex(hist, n) == Len(hist) < n + 1

\* len(hist) >= n and hist[-1-n] == hist[-1], when it does not raise
NBackMatch(hist, n) == Len(hist) >= n /\ hist[Len(hist) - n] = hist[Len(hist)]

\* The match test of lines 171-172 raises IndexError
NBackRaises(hist, n) == Len(hist) >= n /\ BadIndex(hist, n)

\* The score of one trial (lines 178-185)
TrialScore(user_pos, user_let, pos_match, let_match) ==
    IF user_pos = pos_match /\ user_let = let_match THEN 5
    ELSE IF user_pos = pos_match \/ user_let = let_match THEN 2
    ELSE 0

memory_boost_end(st) ==
    LET c   == st.current_challenge
        den == c.trials * 5
        over(t) == c.score * 100 > t * den
        nm  == "Memory N" \o ToString(c.n)
        Badged(st1) ==
            IF over(90) THEN award_badge(st1, nm \o " Grandmaster")
            ELSE IF over(80) THEN award_badge(st1, nm \o " Master")
            ELSE IF over(70) THEN award_badge(st1, nm \o " Adept")
            ELSE st1
    IN  go_to_menu_after_delay(log(Badged(
            gain_xp(log(st), IntPercentTwice(c.score, den), <<c.world_index>>))))

\* The mutated adaptation: no limit on n
AdaptUnbounded(st) ==
    LET c == st.current_challenge
        t == c.current_trial
    IN  IF t >= 5 /\ t % 5 = 0
        THEN IF c.score * 100 > 80 * (t * 5)
             THEN [log(st) EXCEPT !.current_challenge.n = @ + 1]
             ELSE IF c.score * 100 < 50 * (t * 5)
                  THEN [log(st) EXCEPT !.current_challenge.n = @ - 1]
                  ELSE st
        ELSE st

\* The adaptive difficulty of lines 188-199, after the trial is scored
Adapt(st) ==
    LET c == st.current_challenge
        t == c.current_trial
    IN  IF t >= 5 /\ t % 5 = 0
        THEN IF c.score * 100 > 80 * (t * 5) /\ c.n < 5
             THEN [log(st) EXCEPT !.current_challenge.n = @ + 1]
             ELSE IF c.score * 100 < 50 * (t * 5) /\ c.n > 2
                  THEN [log(st) EXCEPT !.current_challenge.n = @ - 1]
                  ELSE st
        ELSE st

\* memory_boost_next_trial(user_pos, user_let); pos and let are the stimulus
\* drawn for the next trial
memory_boost_next_trial(st, user_pos, user_let, pos, let) ==
    LET c0  == st.current_challenge
        st0 == IF c0.current_trial = 0
               THEN [st EXCEPT !.current_challenge.start_time = "set"]
               ELSE st
    IN  IF c0.current_trial > 0 /\ NBackRaises(c0.pos_hist, c0.n)
        THEN [st0 EXCEPT !.raised = "IndexError"]
        ELSE
            LET \* the end or the next trial, on the session st1 the
                \* scored trial leaves
                Advance(st1) ==
                    IF st1.current_challenge.current_trial
                          >= st1.current_challenge.trials
                    THEN memory_boost_end(st1)
                    ELSE [st1 EXCEPT
                            !.current_challenge.pos_hist = Append(@, pos),
                            !.current_challenge.let_hist = Append(@, let),
                            !.current_challenge.current_trial = @ + 1]
            IN  Advance(IF c0.current_trial > 0
                        THEN Adapt([log(st0) EXCEPT
                                !.current_challenge.score =
                                    @ + TrialScore(user_pos, user_let,
                                                   NBackMatch(c0.pos_hist, c0.n),
                                                   NBackMatch(c0.let_hist, c0.n))])
                        ELSE st0)

----------------------------------------------------------------------------
(* The boss arena.                                                         *)

boss_arena_init(st, world_index, scenario, perspective) ==
    [logn(st, 2) EXCEPT
        !.current_challenge =
            [mode |-> "boss_arena", world_index |-> world_index,
             challenge_stage |-> 0, score |-> 0, n |-> 3, trials |-> 5,
             current_trial |-> 0, pos_hist |-> <<>>, let_hist |-> <<>>,
             scenario |-> scenario, perspective |-> perspective],
        !.current_view = "boss_arena_game"]

\* boss_arena_end(c): c.score is the float the memory stage left, with the
\* scores of the two responses added
boss_arena_end(st) ==
    LET Ended(total) ==
            LET \* min(200, total) > t
                over(t) == FloatFloor(total) > t
                               \/ (FloatFloor(total) = t /\ total # FloatDiv(t, 1))
                \* int(min(200, total))
                final_boss_score == Min(200, FloatFloor(total))
                badge == IF over(150) THEN "Cognitive Champion"
                         ELSE IF over(120) THEN "Arena Master"
                         ELSE ""
            IN  go_to_menu_after_delay(
                    gain_xp(IF badge # "" THEN award_badge(logn(st, 2), badge)
                            ELSE logn(st, 2),
                            final_boss_score, <<>>))
    IN  Ended(FloatPlus(st.current_challenge.score, 50))

\* The mutated score: no cap
DepthScoreUncapped(response) == WordCount(response) * 2

\* min(50, len(response.split()) * 2)
DepthScore(response) == Min(50, WordCount(response) * 2)

\* boss_arena_next(user_inputs): user_inputs holds user_pos_match,
\* user_let_match and response_text, a key left out holding its default
\* (False, False, ''); pos and let are the stimulus drawn for the next trial.
\* c.score is an integer in the memory stage and a float from its end on.
boss_arena_next(st, user_inputs, pos, let) ==
    LET c0 == st.current_challenge
        response == user_inputs.response_text
        \* the response scored when the stage is from (lines 659-687)
        Respond(sa, from) ==
            IF sa.current_challenge.challenge_stage = from /\ Len(response) > 0
            THEN [log(sa) EXCEPT
                    !.current_challenge.score = FloatPlus(@, DepthScore(response)),
                    !.current_challenge.challenge_stage = from + 1]
            ELSE sa
        Finish(sc) ==
            IF sc.current_challenge.challenge_stage = 3 THEN boss_arena_end(sc) ELSE sc
        \* stage 1 onwards, entered in the stage sa holds
        Later(sa) == Finish(Respond(Respond(sa, 1), 2))
    IN  IF c0.challenge_stage = 0
        THEN IF c0.current_trial > 0 /\ NBackRaises(c0.pos_hist, c0.n)
             THEN [st EXCEPT !.raised = "IndexError"]
             ELSE
                LET \* the end of the memory stage or its next trial, on
                    \* the session st1 the scored trial leaves
                    Advance(st1) ==
                        IF st1.current_challenge.current_trial
                              >= st1.current_challenge.trials
                        THEN [log(st1) EXCEPT
                                \* (score / (trials * 5)) * 50
                                !.current_challenge.score =
                                    FloatTimes(FloatDiv(@, st1.current_challenge.trials * 5),
                                               50),
                                !.current_challenge.challenge_stage = 1,
                                !.current_challenge.current_trial = 0]
                        ELSE [st1 EXCEPT
                                !.current_challenge.pos_hist = Append(@, pos),
                                !.current_challenge.let_hist = Append(@, let),
                                !.current_challenge.current_trial = @ + 1]
                IN  Later(Advance(
                        IF c0.current_trial > 0
                        THEN [log(st) EXCEPT
                                !.current_challenge.score =
                                    @ + TrialScore(user_inputs.user_pos_match,
                                                   user_inputs.user_let_match,
                                                   NBackMatch(c0.pos_hist, c0.n),
                                                   NBackMatch(c0.let_hist, c0.n))]
                        ELSE st))
        ELSE Later(st)

----------------------------------------------------------------------------
(* The success flag each end function computes (and leaves unused).        *)

\* success, of memory_boost_end (final_score_percent > 70), view_switch_end
\* (final_score_percent > 65) and step_logic_end (final_score > 80, a float)
Success(c) ==
    CASE c.world_index = 0 -> c.score * 100 > 70 * (c.trials * 5)
      [] c.world_index = 1 ->
            Min(100 * c.num_views * c.max_per_view, c.score * 100)
                > 65 * (c.num_views * c.max_per_view)
      [] c.world_index = 2 ->
            LET nkeys == Len(c.solution_keys)
            IN  IF nkeys > 0
                THEN Min(150 * nkeys, c.steps_score * nkeys + c.key_hits * 50)
                         > 80 * nkeys
                ELSE Min(150, c.steps_score) > 80

\* ai_play_end: success = total_score > 70
PromptSuccess(prompt) == evaluate_prompt_advanced(prompt) > 70

----------------------------------------------------------------------------
(* Entering a world, the daily challenge, and the way back to the menu.    *)

\* The random draws of an init function, as a record: a scenario, the
\* perspectives, a riddle, a prompt target, a problem, thinking modes, one
\* perspective, a world.  FirstDraw draws the first entries.
FirstDraw ==
    [scenario |-> scenarios[1], views |-> SubSeq(perspectives, 1, 6),
     puzzle |-> riddles[1], target |-> prompt_targets[1],
     problem |-> problems[1], modes |-> SubSeq(thinking_modes, 1, 3),
     perspective |-> perspectives[1], world |-> 0]

\* The draws the init function of world world_index may make.
WorldDraws(world_index) ==
    CASE world_index = 0 -> {FirstDraw}
      [] world_index = 1 ->
            {[FirstDraw EXCEPT !.scenario = s, !.views = v] :
                s \in Choices(scenarios), v \in Samples(perspectives, 6)}
      [] world_index = 2 -> {[FirstDraw EXCEPT !.puzzle = p] : p \in Choices(riddles)}
      [] world_index = 3 ->
            {[FirstDraw EXCEPT !.target = t] : t \in Choices(prompt_targets)}

\* The draws meta_cognition_init may make.
MetaDraws ==
    {[FirstDraw EXCEPT !.problem = p, !.modes = m] :
        p \in Choices(problems), m \in Samples(thinking_modes, 3)}

\* The draws boss_arena_init may make.
BossDraws ==
    {[FirstDraw EXCEPT !.world = w, !.scenario = s, !.perspective = v] :
        w \in {x \in Worlds : x < MaxPick}, s \in Choices(scenarios),
        v \in Choices(perspectives)}

\* The init function of world world_index
world_init(st, world_index, world_level, draw) ==
    CASE world_index = 0 -> memory_boost_init(st, world_level)
      [] world_index = 1 ->
            view_switch_init(st, world_level, draw.scenario,
                             SubSeq(draw.views, 1, Min(3 + world_level \div 2, 6)))
      [] world_index = 2 -> step_logic_init(st, world_level, draw.puzzle)
      [] world_index = 3 -> ai_play_init(st, world_level, draw.target)

play_world(st, world_index, draw) ==
    LET current_level == st.player.world_unlocks[world_index]
        st1 == [log(st) EXCEPT !.player = SetKey(@, "attempts_remaining", 3)]
    IN  world_init(st1, world_index, current_level, draw)

\* The mutated increment: two levels at once
NextLevelSkipping(level) == level + 2

\* player["world_unlocks"][world_index] += 1
NextLevel(level) == level + 1

\* The mutated test: a boss fight every 2 levels
IsBossLevelEven(new_level) == new_level % 2 = 0

\* new_level % 3 == 0: a boss fight every 3 levels
IsBossLevel(new_level) == new_level % 3 = 0

\* advance_world_level(world_index, success); draw holds the draws of
\* boss_arena_init
advance_world_level(st, world_index, success, draw) ==
    IF success
    THEN LET st1 == log([st EXCEPT !.player.world_unlocks[world_index] = NextLevel(@)])
             new_level == st1.player.world_unlocks[world_index]
         IN  IF IsBossLevel(new_level)
             THEN boss_arena_init(st1, world_index, draw.scenario, draw.perspective)
             ELSE go_to_menu_after_delay(st1)
    ELSE go_to_menu_after_delay(log(st))

\* The draws that follow random.seed(): challenge type t, then the one
\* random.choice the init of that type makes (entry k of its list) and the
\* one random.sample (the entries at idx).  Draws the init does not make
\* are left at the first entries.
SeededDraw(t, k, idx) ==
    [challenge_type |-> t,
     scenario |-> scenarios[IF t = 1 THEN k ELSE 1],
     views |-> Pick(perspectives, IF t = 1 THEN idx ELSE <<1, 2, 3, 4, 5, 6>>),
     puzzle |-> riddles[IF t = 2 THEN k ELSE 1],
     target |-> prompt_targets[IF t = 3 THEN k ELSE 1],
     problem |-> problems[IF t = 4 THEN k ELSE 1],
     modes |-> Pick(thinking_modes, IF t = 4 THEN idx ELSE <<1, 2, 3>>),
     perspective |-> perspectives[1],
     world |-> 0]

\* The dates whose seeded draws are tabulated.
DailySeeds ==
    {<<2024, 2, 27>>, <<2024, 2, 28>>, <<2024, 2, 29>>, <<2024, 3, 1>>,
     <<2024, 3, 2>>, <<2024, 3, 3>>, <<2024, 3, 4>>, <<2024, 3, 5>>}

\* random.seed(str(date)) followed by random.randint(0, 4) and the draws of
\* the init: what the Mersenne Twister yields for each date string.
DailyDraw(seed) ==
    CASE seed = <<2024, 2, 27>> -> SeededDraw(4, 5, <<4, 3, 1>>)
      [] seed = <<2024, 2, 28>> -> SeededDraw(0, 1, <<>>)
      [] seed = <<2024, 2, 29>> -> SeededDraw(4, 2, <<1, 4, 2>>)
      [] seed = <<2024, 3, 1>> -> SeededDraw(0, 1, <<>>)
      [] seed = <<2024, 3, 2>> -> SeededDraw(1, 5, <<7, 10, 5, 8, 1, 2>>)
      [] seed = <<2024, 3, 3>> -> SeededDraw(3, 1, <<>>)
      [] seed = <<2024, 3, 4>> -> SeededDraw(2, 3, <<>>)
      [] seed = <<2024, 3, 5>> -> SeededDraw(1, 1, <<6, 3, 9, 5, 1, 2>>)

\* daily_challenge_init(): random.seed(self.daily_seed), then
\* random.randint(0, 4) giving challenge_type
daily_challenge_init(st) ==
    LET Begun(draw) ==
            LET challenge_type == draw.challenge_type
                world_index == IF challenge_type < 4 THEN challenge_type ELSE -1
                st1 == IF challenge_type < 4
                       THEN world_init(logn(st, 2), challenge_type, 8, draw)
                       ELSE meta_cognition_init(logn(st, 2), draw.problem, draw.modes)
                mode == CASE challenge_type = 0 -> "daily_memory"
                          [] challenge_type = 1 -> "daily_view_switch"
                          [] challenge_type = 2 -> "daily_step_logic"
                          [] challenge_type = 3 -> "daily_ai_play"
                          [] OTHER -> "daily_meta_cognition"
            IN  [st1 EXCEPT !.current_challenge =
                    SetKey(SetKey([@ EXCEPT !.mode = mode], "world_index", world_index),
                           "is_daily", TRUE)]
    IN  Begun(DailyDraw(st.daily_seed))

\* complete_daily_challenge(success)
complete_daily_challenge(st, success) ==
    LET st1 == IF success
               THEN award_badge(gain_xp(log(st), 100, <<>>), "Daily Champion")
               ELSE gain_xp(log(st), 50, <<>>)
    IN  go_to_menu_after_delay(
            [st1 EXCEPT !.current_challenge = SetKey(@, "is_daily", FALSE)])

\* The mutated go_to_menu: the log is kept
go_to_menu_keeping_log(st) == [st EXCEPT !.current_view = "main_menu"]

\* go_to_menu(): set_view('main_menu'), the log emptied
go_to_menu(st) == [st EXCEPT !.current_view = "main_menu", !.game_output = 0]

----------------------------------------------------------------------------
(* SpecOps: the progression operations called directly, in any order, on   *)
(* player records a save file can hold.                                    *)

PtsInputs == {0, 10, 20, 150}
BadgeInputs == {"Meta-Thinker", "Level 5 Master"}

PlayerSeeds ==
    {[default_player EXCEPT !.xp = x, !.level = l, !.streak = s, !.last_play = lp] :
        x \in {0, 95, 380, 440}, l \in {1, 4}, s \in {0, 3},
        lp \in {<<>>, <<2024, 2, 27>>, <<2024, 2, 30>>}}

\* The session handle_load_game leaves: the player of the file, the menu,
\* one line logged.
InitOps ==
    /\ player \in PlayerSeeds
    /\ current_view = "main_menu"
    /\ game_output = 1
    /\ current_challenge = NoChallenge
    /\ today = StartDate
    /\ raised = ""
    /\ daily_seed = StartDate
    /\ last = NoCall

\* The calls still allowed by the bounds.
OpsOpen == player.xp <= MaxOpsXp /\ game_output < MaxLog

OpUpdateStreak ==
    /\ OpsOpen
    /\ Becomes(update_streak(Session, today))
    /\ last' = Call("update_streak", 0, <<>>, "", today)
    /\ UNCHANGED today

OpAwardBadge ==
    /\ OpsOpen
    /\ \E b \in BadgeInputs :
          /\ Becomes(award_badge(Session, b))
          /\ last' = Call("award_badge", 0, <<>>, b, today)
    /\ UNCHANGED today

OpGainXp ==
    /\ OpsOpen
    /\ \E pts \in PtsInputs, world \in {<<>>} \cup {<<w>> : w \in Worlds} :
          /\ Becomes(gain_xp(Session, pts, world))
          /\ last' = Call("gain_xp", pts, world, "", today)
    /\ UNCHANGED today

\* Midnight passes (SpecOps).
Tick ==
    /\ DaysBetween(today, StartDate) < MaxDays
    /\ today' = NextDay(today)
    /\ UNCHANGED <<player, current_view, game_output, current_challenge, raised,
                   daily_seed, last>>

NextOps == OpUpdateStreak \/ OpAwardBadge \/ OpGainXp \/ Tick

SpecOps == InitOps /\ [][NextOps]_vars

----------------------------------------------------------------------------
(* SpecStreak: update_streak called on the player records a save file can   *)
(* hold, as the days pass.  handle_load_game makes the file's content the  *)
(* player, whatever it holds.                                              *)

\* del d[k], for a Python dict d
DelKey(d, k) == [x \in DOMAIN d \ {k} |-> d[x]]

\* The records of the save files: a player who has played, with each
\* last_play (empty, a number, a text that is no date, and dates before, on
\* and after the start date), and with the key missing.
SavedPlayers ==
    LET SavedLastPlays ==
            {<<>>, <<0>>, <<2024, 2, 30>>, <<2024, 2, 20>>, <<2024, 2, 26>>,
             <<2024, 2, 27>>, <<2024, 2, 28>>, <<2024, 3, 15>>}
        base(sk) == [default_player EXCEPT !.xp = 240, !.level = 3, !.streak = sk,
                        !.badges = <<"Meta-Thinker">>, !.total_sessions = 1]
    IN  {[base(sk) EXCEPT !.last_play = lp] : sk \in {0, 3}, lp \in SavedLastPlays}
        \cup {DelKey(base(sk), "last_play") : sk \in {0, 3}}

\* The session handle_load_game leaves: the player of the file, the menu,
\* one line logged.
InitStreak ==
    /\ player \in SavedPlayers
    /\ current_view = "main_menu"
    /\ game_output = 1
    /\ current_challenge = NoChallenge
    /\ today = StartDate
    /\ raised = ""
    /\ daily_seed = StartDate
    /\ last = NoCall

NextStreak == OpUpdateStreak \/ Tick

SpecStreak == InitStreak /\ [][NextStreak]_vars

----------------------------------------------------------------------------
(* Spec: the app, from "Start New Game" on.  Every user interaction is one *)
(* action: the handler it calls and the script runs around it, each of     *)
(* which calls initialize_session_state() and so update_streak().          *)

\* The session as a handler finds it: no exception pending.
Clear == [Session EXCEPT !.raised = ""]

\* An on_click callback has returned st: unless it raised, the script runs,
\* which calls main() when the session holds a player and shows the setup
\* page when it holds none (lines 1286-1307).
AfterCallback(st) ==
    IF st.raised # "" \/ DOMAIN st.player = {} THEN st ELSE main(st, today)

\* The script runs once with no handler called (a form rejected, a reload).
ScriptRun == IF DOMAIN player = {} THEN Clear ELSE main(Clear, today)

Init ==
    /\ today = StartDate
    /\ player = initialize_session_state(
                    [player |-> default_player, current_view |-> "main_menu",
                     game_output |-> 0, current_challenge |-> NoChallenge,
                     raised |-> "", daily_seed |-> today], today).player
    /\ current_view = "main_menu"
    /\ game_output = 1
    /\ current_challenge = NoChallenge
    /\ raised = ""
    /\ daily_seed = StartDate
    /\ last = NoCall

\* The menu is shown by a script run that raised nothing; it opens an
\* exercise only within the bound on xp.
MenuOpen == current_view = "main_menu" /\ raised = "" /\ player.xp <= MaxXp

PlayWorld ==
    /\ MenuOpen
    /\ \E w \in Worlds : \E draw \in WorldDraws(w) :
          Becomes(AfterCallback(play_world(Clear, w, draw)))
    /\ UNCHANGED <<today, last>>

StartMeta ==
    /\ MenuOpen
    /\ \E draw \in MetaDraws :
          Becomes(AfterCallback(meta_cognition_init(Clear, draw.problem, draw.modes)))
    /\ UNCHANGED <<today, last>>

StartDaily ==
    /\ MenuOpen
    /\ daily_seed \in DailySeeds
    /\ Becomes(AfterCallback(daily_challenge_init(Clear)))
    /\ UNCHANGED <<today, last>>

\* The mutated button: enabled at every level
StartBossAnyLevel ==
    /\ MenuOpen
    /\ \E draw \in BossDraws :
          Becomes(AfterCallback(
              boss_arena_init(Clear, draw.world, draw.scenario, draw.perspective)))
    /\ UNCHANGED <<today, last>>

\* The Boss Arena button is disabled below level 3.
StartBoss ==
    /\ MenuOpen
    /\ ~(player.level < 3)
    /\ \E draw \in BossDraws :
          Becomes(AfterCallback(
              boss_arena_init(Clear, draw.world, draw.scenario, draw.perspective)))
    /\ UNCHANGED <<today, last>>

\* The stimuli random.randint(1, 9) and random.choice(letters) may draw.
StimPos == 1..Min(MaxStim, 9)
StimLet == {letters[i] : i \in 1..Min(MaxStim, 9)}

\* The check boxes are offered once current_trial > n; the buttons before
\* that pass False, False.
MemoryNext ==
    /\ current_view = "memory_boost_game"
    /\ \E pos \in StimPos, let \in StimLet,
          user_pos, user_let \in
              (IF current_challenge.current_trial > current_challenge.n
               THEN BOOLEAN ELSE {FALSE}) :
          Becomes(AfterCallback(
              memory_boost_next_trial(Clear, user_pos, user_let, pos, let)))
    /\ UNCHANGED <<today, last>>

\* The mutated form: a blank text is handed to the handler too
SubmitUnchecked(text, handled) ==
    IF handled.raised # "" THEN handled ELSE main(handled, today)

\* A form of an exercise is submitted with text: the script runs, the form
\* rejects a blank text, and otherwise calls its handler on the session of
\* that run, which yields handled, and st.rerun().
Submit(text, handled) ==
    IF IsBlank(text) THEN ScriptRun
    ELSE IF handled.raised # "" THEN handled ELSE main(handled, today)

\* "Start Analysis" calls view_switch_next(""); the form calls it with the text.
ViewSwitchNext ==
    /\ current_view = "view_switch_game"
    /\ IF current_challenge.current_view_index = 0
       THEN Becomes(AfterCallback(view_switch_next(Clear, <<>>)))
       ELSE \E text \in TextInputs : Becomes(Submit(text, view_switch_next(ScriptRun, text)))
    /\ UNCHANGED <<today, last>>

StepLogicNext ==
    /\ current_view = "step_logic_game"
    /\ IF current_challenge.current_step = 0
       THEN Becomes(AfterCallback(step_logic_next(Clear, <<>>)))
       ELSE \E text \in TextInputs : Becomes(Submit(text, step_logic_next(ScriptRun, text)))
    /\ UNCHANGED <<today, last>>

AiPlayEnd ==
    /\ current_view = "ai_play_game"
    /\ \E text \in TextInputs : Becomes(Submit(text, ai_play_end(ScriptRun, text)))
    /\ UNCHANGED <<today, last>>

MetaCognitionNext ==
    /\ current_view = "meta_cognition_game"
    /\ IF current_challenge.current_mode_index = 0
       THEN Becomes(AfterCallback(meta_cognition_next(Clear, <<>>)))
       ELSE \E text \in TextInputs : Becomes(Submit(text, meta_cognition_next(ScriptRun, text)))
    /\ UNCHANGED <<today, last>>

\* The memory stage calls boss_arena_next from its buttons; the perspective
\* and meta-cognition stages call it from their forms.
BossArenaNext ==
    /\ current_view = "boss_arena_game"
    /\ IF current_challenge.challenge_stage = 0
       THEN \E pos \in StimPos, let \in StimLet,
               user_pos, user_let \in
                   (IF current_challenge.current_trial > current_challenge.n
                    THEN BOOLEAN ELSE {FALSE}) :
               Becomes(AfterCallback(
                   boss_arena_next(Clear,
                       [user_pos_match |-> user_pos, user_let_match |-> user_let,
                        response_text |-> <<>>], pos, let)))
       ELSE \E text \in TextInputs :
               Becomes(Submit(text,
                   boss_arena_next(ScriptRun,
                       [user_pos_match |-> FALSE, user_let_match |-> FALSE,
                        response_text |-> text], 1, "A")))
    /\ UNCHANGED <<today, last>>

\* "Back to Main Menu"
GoToMenu ==
    /\ current_view = "results_summary"
    /\ Becomes(AfterCallback(go_to_menu(Clear)))
    /\ UNCHANGED <<today, last>>

\* The page is reloaded: the script runs and calls no handler.
Rerun ==
    /\ Becomes(ScriptRun)
    /\ UNCHANGED <<today, last>>

\* Midnight passes.
Midnight ==
    /\ DaysBetween(today, StartDate) < MaxAppDays
    /\ today' = NextDay(today)
    /\ UNCHANGED <<player, current_view, game_output, current_challenge, raised,
                   daily_seed, last>>

Next ==
    \/ PlayWorld \/ StartMeta \/ StartDaily \/ StartBoss
    \/ MemoryNext \/ ViewSwitchNext \/ StepLogicNext \/ AiPlayEnd
    \/ MetaCognitionNext \/ BossArenaNext
    \/ GoToMenu \/ Rerun \/ Midnight

Spec == Init /\ [][Next]_vars

----------------------------------------------------------------------------
(* SpecWorld: advance_world_level and complete_daily_challenge called     *)
(* directly, with either outcome, from "Start New Game" on, among the      *)
(* other operations on the player: the progression operations, play_world, *)
(* the daily challenge and go_to_menu, as the days pass.  The app itself   *)
(* calls neither of the two.                                               *)

\* The levels the worlds may be advanced by, in all.
MaxUnlock == 3

\* The record of a call of advance_world_level
AdvanceCall(world_index, success) ==
    SetKey(Call("advance_world_level", 0, <<world_index>>, "", today),
           "success", success)

\* The calls still allowed by the bounds (SpecWorld).
WorldOpen == player.xp <= MaxWorldXp /\ game_output < MaxLog

OpAdvance ==
    /\ WorldOpen
    /\ SumOver(player.world_unlocks, Worlds) < MaxUnlock
    /\ \E w \in Worlds, success \in BOOLEAN, draw \in BossDraws :
          /\ Becomes(advance_world_level(Session, w, success, draw))
          /\ last' = AdvanceCall(w, success)
    /\ UNCHANGED today

OpPlayWorld ==
    /\ WorldOpen
    /\ \E w \in Worlds : \E draw \in WorldDraws(w) :
          Becomes(play_world(Session, w, draw))
    /\ last' = NoCall
    /\ UNCHANGED today

OpGoToMenu ==
    /\ Becomes(go_to_menu(Session))
    /\ last' = NoCall
    /\ UNCHANGED today

WorldGainXp ==
    /\ WorldOpen
    /\ \E world \in {<<>>} \cup {<<w>> : w \in Worlds} :
          Becomes(gain_xp(Session, 150, world))
    /\ last' = NoCall
    /\ UNCHANGED today

WorldAwardBadge ==
    /\ WorldOpen
    /\ \E b \in BadgeInputs : Becomes(award_badge(Session, b))
    /\ last' = NoCall
    /\ UNCHANGED today

WorldUpdateStreak ==
    /\ WorldOpen
    /\ Becomes(update_streak(Session, today))
    /\ last' = NoCall
    /\ UNCHANGED today

OpCompleteDaily ==
    /\ WorldOpen
    /\ \E success \in BOOLEAN : Becomes(complete_daily_challenge(Session, success))
    /\ last' = NoCall
    /\ UNCHANGED today

NextWorld ==
    \/ OpAdvance \/ OpPlayWorld \/ OpGoToMenu
    \/ WorldGainXp \/ WorldAwardBadge \/ WorldUpdateStreak
    \/ StartDaily \/ OpCompleteDaily \/ Midnight

SpecWorld == Init /\ [][NextWorld]_vars

----------------------------------------------------------------------------
(* SpecBoss: the boss arena from its fifth call on.  The fourth call of a  *)
(* fresh arena raises IndexError (three stimuli shown, n = 3), so the app  *)
(* never gets further; SpecBoss starts boss_arena_next on the challenge a  *)
(* memory stage holds with four stimuli shown and three trials scored, and *)
(* also at the menu, where the arena is started afresh.                    *)

\* The challenge of an arena in its memory stage, four stimuli shown (all
\* alike, so that the 3-back match holds, or all different) and three trials
\* scored (all missed, mixed, all double hits).
BossSeeds ==
    LET menu  == [player |-> default_player, current_view |-> "main_menu",
                  game_output |-> 0, current_challenge |-> NoChallenge,
                  raised |-> "", daily_seed |-> StartDate]
        fresh == boss_arena_init(menu, 0, scenarios[1], perspectives[1]).current_challenge
    IN  {[fresh EXCEPT !.score = sc, !.current_trial = 4, !.pos_hist = ph,
                       !.let_hist = lh] :
            sc \in {0, 7, 15},
            ph \in {<<1, 1, 1, 1>>, <<1, 2, 3, 4>>},
            lh \in {<<"A", "A", "A", "A">>, <<"A", "B", "C", "D">>}}

\* The players in the arena: level 3 opens it; one holds its badges already.
BossPlayers ==
    LET played == [default_player EXCEPT !.streak = 1, !.last_play = StartDate,
                                         !.total_sessions = 1]
    IN  {[played EXCEPT !.xp = 200, !.level = 3],
         [played EXCEPT !.xp = 240, !.level = 3,
                        !.badges = <<"Arena Master", "Cognitive Champion">>]}

InitBoss ==
    /\ player \in BossPlayers
    /\ current_challenge \in BossSeeds \cup {NoChallenge}
    /\ current_view = (IF DOMAIN current_challenge = {} THEN "main_menu"
                       ELSE "boss_arena_game")
    /\ game_output = 5
    /\ today = StartDate
    /\ raised = ""
    /\ daily_seed = StartDate
    /\ last = NoCall

NextBoss == BossArenaNext \/ GoToMenu \/ StartBoss

SpecBoss == InitBoss /\ [][NextBoss]_vars

----------------------------------------------------------------------------
(* SpecMemory: the memory game from the call after the one that raises.    *)
(* The call at current_trial = n raises IndexError (n stimuli shown), so    *)
(* the app never gets further; SpecMemory starts memory_boost_next_trial   *)
(* on the challenge memory_boost_init sets up for a world level, with      *)
(* n + 1 stimuli shown and n trials scored (all missed or all double       *)
(* hits), and runs the session to its end.                                 *)

InitMemory ==
    LET menu == [player |-> [default_player EXCEPT !.streak = 1,
                                !.last_play = StartDate, !.total_sessions = 1],
                 current_view |-> "main_menu", game_output |-> 0,
                 current_challenge |-> NoChallenge, raised |-> "",
                 daily_seed |-> StartDate]
        fresh(world_level) == memory_boost_init(menu, world_level).current_challenge
        shown(c) == [c EXCEPT !.current_trial = c.n + 1,
                              !.pos_hist = [i \in 1..(c.n + 1) |-> 1],
                              !.let_hist = [i \in 1..(c.n + 1) |-> "A"],
                              !.start_time = "set"]
    IN  /\ \E world_level \in {0, 3, 6, 9}, hit \in {0, 5} :
              current_challenge =
                  [shown(fresh(world_level)) EXCEPT
                      !.score = hit * fresh(world_level).n]
        /\ player = menu.player
        /\ current_view = "memory_boost_game"
        /\ game_output = 2 + current_challenge.n
        /\ today = StartDate
        /\ raised = ""
        /\ daily_seed = StartDate
        /\ last = NoCall

NextMemory == MemoryNext \/ GoToMenu

SpecMemory == InitMemory /\ [][NextMemory]_vars

----------------------------------------------------------------------------
(* SpecText: the handlers of the four text exercises called directly with  *)
(* the texts of ScoreTexts, from the session each init function leaves     *)
(* when its button is clicked on the menu, up to the end of the session.   *)

\* The menu holds no log line after "Back to Main Menu" and the streak line
\* in a session just begun; play_world and meta_cognition_init are called
\* on it with the draws they may make, the thinking modes drawn being three
\* of the four in some order.
InitText ==
    LET menu(lines) ==
            [player |-> [default_player EXCEPT !.streak = 1,
                            !.last_play = StartDate, !.total_sessions = 1],
             current_view |-> "main_menu", game_output |-> lines,
             current_challenge |-> NoChallenge, raised |-> "",
             daily_seed |-> StartDate]
        begun == {play_world(menu(lines), w, draw) :
                      lines \in {0, 1}, w \in {1, 2, 3},
                      draw \in UNION {WorldDraws(x) : x \in {1, 2, 3}}}
                 \cup {meta_cognition_init(menu(lines), draw.problem,
                                           Pick(thinking_modes, idx)) :
                          lines \in {0, 1}, draw \in MetaDraws,
                          idx \in {<<1, 2, 3>>, <<4, 1, 2>>, <<3, 4, 1>>}}
    IN  /\ \E st \in begun :
              /\ player = st.player
              /\ current_view = st.current_view
              /\ game_output = st.game_output
              /\ current_challenge = st.current_challenge
              /\ raised = st.raised
              /\ daily_seed = st.daily_seed
        /\ today = StartDate
        /\ last = NoCall

\* The handler of the exercise shown is called as the page calls it: with ""
\* by the start button of the exercise, with a text that is not blank by its
\* form (the prompt form has no start button).
RespondText ==
    /\ current_view \in {"view_switch_game", "step_logic_game", "ai_play_game",
                          "meta_cognition_game"}
    /\ \E text \in (IF (CASE current_view = "view_switch_game" ->
                                current_challenge.current_view_index
                         [] current_view = "step_logic_game" ->
                                current_challenge.current_step
                         [] current_view = "ai_play_game" -> 1
                         [] current_view = "meta_cognition_game" ->
                                current_challenge.current_mode_index) = 0
                    THEN {<<>>} ELSE {t \in ScoreTexts : ~IsBlank(t)}) :
          Becomes(CASE current_view = "view_switch_game" ->
                           view_switch_next(Session, text)
                    [] current_view = "step_logic_game" ->
                           step_logic_next(Session, text)
                    [] current_view = "ai_play_game" -> ai_play_end(Session, text)
                    [] current_view = "meta_cognition_game" ->
                           meta_cognition_next(Session, text))
    /\ UNCHANGED <<today, last>>

NextText == RespondText \/ GoToMenu

SpecText == InitText /\ [][NextText]_vars

----------------------------------------------------------------------------
(* SpecLoad: the app from the setup page on, which is shown while the      *)
(* session holds no player (no view and no log either) and offers "Load    *)
(* Game" and "Start New Game".  Each click is one action: the handler it   *)
(* calls and the script run that follows.                                  *)

\* What the "Load Game" button passes: no file (None), a file json.load
\* fails on, or a file holding one of the saved records.  json is the
\* sequence of the values json.load returns: none when it raises.
Uploads ==
    {[given |-> g, json |-> <<>>] : g \in BOOLEAN}
    \cup {[given |-> TRUE, json |-> <<p>>] : p \in SavedPlayers}

\* handle_load_game(uploaded_file): the exception of json.load is caught and
\* shown by st.error
handle_load_game(st, uploaded_file) ==
    IF ~uploaded_file.given THEN st
    ELSE IF uploaded_file.json = <<>> THEN st
         ELSE [st EXCEPT !.player = uploaded_file.json[1],
                         !.current_view = "main_menu",
                         !.game_output = 1]

\* The setup page: the session has no player, no view and no log.
InitLoad ==
    /\ player = <<>>
    /\ current_view = ""
    /\ game_output = 0
    /\ current_challenge = NoChallenge
    /\ today = StartDate
    /\ raised = ""
    /\ daily_seed = StartDate
    /\ last = NoCall

\* "Load Game" is clicked on the setup page: handle_load_game is called with
\* the file chosen and the script runs, with main() and so update_streak()
\* when a player was loaded.
LoadGame ==
    /\ DOMAIN player = {}
    /\ \E uploaded_file \in Uploads :
          Becomes(AfterCallback(handle_load_game(Clear, uploaded_file)))
    /\ last' = Call("handle_load_game", 0, <<>>, "", today)
    /\ UNCHANGED today

\* "Start New Game" is clicked on the setup page: initialize_session_state()
\* fills the empty session, and the script runs again, with main().
StartNewGame ==
    /\ DOMAIN player = {}
    /\ Becomes(main(initialize_session_state(
                        [Clear EXCEPT !.player = default_player,
                                      !.current_view = "main_menu",
                                      !.game_output = 0,
                                      !.current_challenge = NoChallenge],
                        today),
                    today))
    /\ last' = NoCall
    /\ UNCHANGED today

NextLoad ==
    \/ LoadGame \/ StartNewGame
    \/ PlayWorld \/ StartMeta \/ StartDaily \/ StartBoss
    \/ MemoryNext \/ ViewSwitchNext \/ StepLogicNext \/ AiPlayEnd
    \/ MetaCognitionNext \/ BossArenaNext
    \/ GoToMenu \/ Rerun \/ Midnight

SpecLoad == InitLoad /\ [][NextLoad]_vars

----------------------------------------------------------------------------
(* Steps of SpecOps, told apart by the call they make.                     *)

\* This step is a call of gain_xp (it always logs, so it is never a stutter).
GainXpStep == last'.op = "gain_xp" /\ today' = today /\ game_output' # game_output

\* This step is a call of award_badge.
AwardBadgeStep == last'.op = "award_badge" /\ today' = today

\* The badges this step added.
BadgesAdded == Len(player'.badges) - Len(player.badges)

----------------------------------------------------------------------------
(* Claims.                                                                 *)

\* C1: over any sequence of gain_xp, award_badge and update_streak calls
\* the player's level never decreases.
C1_LevelNeverDecreases == [][player'.level >= player.level]_vars

\* C1 witness: gain_xp has raised the level of a level-4 record.
C1_Witness == last.op = "gain_xp" /\ player.level = 6

\* C2: when no badge is newly awarded, gain_xp returns with the smallest
\* level L >= the old level such that xp < L*100; from xp 95, level 1,
\* streak 0, gain_xp(10, 0) gives xp 105 and level 2.
C2_LevelIsSmallest ==
    [][GainXpStep =>
        /\ BadgesAdded = 0 =>
              /\ player'.level >= player.level
              /\ player'.xp < player'.level * 100
              /\ \A L \in player.level..(player'.level - 1) : player'.xp >= L * 100
        /\ (player.xp = 95 /\ player.level = 1 /\ player.streak = 0
                /\ last'.pts = 10 /\ last'.world = <<0>>) =>
              (player'.xp = 105 /\ player'.level = 2)]_vars

\* C2 witness: one call has raised the level by two (xp 95, streak 3, 150 points).
C2_Witness ==
    /\ last.op = "gain_xp" /\ last.pts = 150
    /\ player.xp = 275 /\ player.level = 3 /\ player.badges = <<>>

\* C3: gain_xp(pts) adds pts + 10*streak to xp, and 50 more only when the
\* call newly awarded a level badge.
C3_XpCredited ==
    [][GainXpStep =>
        player'.xp = player.xp + last'.pts + 10 * player.streak
                     + (IF BadgesAdded > 0 THEN 50 ELSE 0)]_vars

\* C3 witness: streak 3 and 20 points have credited 50 XP to a fresh record.
C3_Witness ==
    /\ last.op = "gain_xp" /\ last.pts = 20
    /\ player.streak = 3 /\ player.xp = 50 /\ player.total_sessions = 0

\* C4: gain_xp(pts, w) sets high_scores[w] to the larger of its old value
\* and pts (the streak bonus left out) and changes no other entry, none at
\* all when the world is omitted; no entry ever decreases.
C4_HighScores ==
    [][/\ GainXpStep =>
            player'.high_scores =
                [w \in Worlds |->
                    IF last'.world = <<w>> /\ last'.pts > player.high_scores[w]
                    THEN last'.pts
                    ELSE player.high_scores[w]]
       /\ \A w \in Worlds : player'.high_scores[w] >= player.high_scores[w]]_vars

\* C4 witness: a score of 10 has left a high score of 150 in place while
\* the streak bonus was 30.
C4_Witness ==
    /\ last.op = "gain_xp" /\ last.pts = 10 /\ last.world = <<0>>
    /\ player.high_scores[0] = 150 /\ player.streak = 3

\* C5: gain_xp awards "Level N Master" (through award_badge, so a badge
\* already held is not added again) exactly when the call raised the level
\* and ended on a level N that is a multiple of 5; the +50 of the badge is
\* added once, and the level is the one reached before that bonus.
C5_LevelBadge ==
    [][GainXpStep =>
        LET N      == player'.level
            xp1    == player.xp + last'.pts + 10 * player.streak
            earned == N > player.level /\ N % 5 = 0
            fresh  == earned /\ ~InList(LevelBadge(N), player.badges)
        IN  /\ player'.badges = IF fresh THEN Append(player.badges, LevelBadge(N))
                                ELSE player.badges
            /\ player'.xp = IF fresh THEN xp1 + 50 ELSE xp1
            /\ N >= player.level
            /\ xp1 < N * 100
            /\ \A L \in player.level..(N - 1) : xp1 >= L * 100]_vars

\* C5 witness: the level badge has lifted xp to the next threshold and the
\* level stayed 5.
C5_Witness ==
    /\ last.op = "gain_xp"
    /\ player.level = 5 /\ player.xp >= 500
    /\ InList("Level 5 Master", player.badges)

\* C6: award_badge adds a badge not yet held once, with 50 XP and one log
\* line; called with a badge already held -- so called a second time with
\* the same name -- it changes nothing and logs nothing.
C6_AwardIdempotent ==
    [][/\ AwardBadgeStep =>
            IF InList(last'.badge, player.badges)
            THEN player' = player /\ game_output' = game_output
            ELSE /\ player'.badges = Append(player.badges, last'.badge)
                 /\ player'.xp = player.xp + 50
                 /\ game_output' = game_output + 1
       /\ (last.op = "award_badge" /\ last'.op = "award_badge"
                /\ last'.badge = last.badge /\ today' = today) =>
            (player' = player /\ game_output' = game_output)]_vars

\* C6 witness: award_badge has added a badge, and a second call is possible.
C6_Witness ==
    /\ last.op = "award_badge" /\ InList(last.badge, player.badges)
    /\ player.xp = 50 /\ ENABLED OpAwardBadge

\* C7: starting from the default player record, in every state reachable
\* through any sequence of exercises, boss arenas and daily challenges, the
\* badges list contains no duplicate entry.
C7_NoDuplicateBadges ==
    \A i, j \in 1..Len(player.badges) :
        player.badges[i] = player.badges[j] => i = j

\* C7 witness: a second prompt scoring 150 has ended (160 XP each with the
\* streak bonus, the 50 of "Prompt God" credited once), so award_badge was
\* called for a badge the player already held.
C7_Witness ==
    /\ current_view = "results_summary"
    /\ current_challenge.mode = "ai_play"
    /\ player.high_scores[3] = 150
    /\ player.xp = 370
    /\ player.badges = <<"Prompt God">>

\* C8: award_badge changes no field of the player but badges and xp.
C8_AwardFrame ==
    [][AwardBadgeStep =>
        player' = [player EXCEPT !.badges = player'.badges,
                                 !.xp = player'.xp]]_vars

\* C8 witness: a badge has lifted xp to the level threshold, the level unchanged.
C8_Witness ==
    /\ last.op = "award_badge" /\ Len(player.badges) = 1
    /\ player.xp = 145 /\ player.level = 1

\* C9: the level-up check is applied after every XP mutation including
\* badge bonuses: in every state at rest after an exercise has ended (view
\* results_summary, all badges for the session awarded), xp < level*100.
C9_LevelCheckAfterBadges ==
    current_view = "results_summary" => player.xp < player.level * 100

\* C10: update_streak called again on the same date changes nothing and
\* logs nothing.
C10_StreakIdempotent ==
    [][(last.op = "update_streak" /\ last'.op = "update_streak"
            /\ last'.on = last.on) =>
        (player' = player /\ game_output' = game_output)]_vars

\* C10 witness: update_streak has run today and counted the session, and
\* can be called again.
C10_Witness ==
    /\ last.op = "update_streak" /\ last.on = today
    /\ player.last_play = today /\ player.total_sessions = 1
    /\ ENABLED OpUpdateStreak

\* This step is a call of update_streak.
UpdateStreakStep == last'.op = "update_streak" /\ today' = today

\* C11: when last_play is a valid date different from today, update_streak
\* increments streak by exactly 1 if today is exactly one calendar day after
\* last_play, and sets streak to 1 for every other gap (two or more days,
\* or a last_play in the future).
C11_StreakByGap ==
    [][(/\ UpdateStreakStep
        /\ "last_play" \in DOMAIN player
        /\ IsIsoDate(player.last_play)
        /\ player.last_play # today) =>
        player'.streak = IF Ordinal(today) = Ordinal(player.last_play) + 1
                         THEN player.streak + 1
                         ELSE 1]_vars

\* C11 witness: a streak of 3 last played on 28 February was extended on
\* the leap day.
C11_Witness ==
    /\ last.op = "update_streak" /\ last.on = <<2024, 2, 29>>
    /\ "last_play" \in DOMAIN player
    /\ player.last_play = <<2024, 2, 29>> /\ player.streak = 4
    /\ player.total_sessions = 2

\* C12: in every non-skip branch update_streak sets last_play to today and
\* increases total_sessions by exactly 1, and it changes no field other
\* than streak, last_play and total_sessions.
C12_StreakFrame ==
    [][(/\ UpdateStreakStep
        /\ "last_play" \in DOMAIN player
        /\ player.last_play # today) =>
        (/\ player'.last_play = today
         /\ player'.total_sessions = player.total_sessions + 1
         /\ DOMAIN player' = DOMAIN player
         /\ \A k \in DOMAIN player \ {"streak", "last_play", "total_sessions"} :
                player'[k] = player[k])]_vars

\* C12 witness: update_streak has counted a session of a record whose
\* last_play was no date, and the XP, level and badges of the file remain.
C12_Witness ==
    /\ last.op = "update_streak"
    /\ "last_play" \in DOMAIN player /\ player.last_play = today
    /\ player.total_sessions = 2 /\ player.streak = 1
    /\ player.xp = 240 /\ player.level = 3 /\ player.badges = <<"Meta-Thinker">>

\* C13: update_streak never raises: for any player record whose last_play
\* is empty, missing, not a string or not an ISO date, it behaves as if
\* there were no previous play and sets streak to 1.
C13_StreakNeverRaises ==
    [][LET \* the record holds no previous play
           NoPreviousPlay(p) ==
               IF "last_play" \in DOMAIN p THEN ~IsIsoDate(p.last_play) ELSE TRUE
       IN  (UpdateStreakStep /\ NoPreviousPlay(player)) =>
               (/\ raised' = ""
                /\ "streak" \in DOMAIN player'
                /\ player'.streak = 1)]_vars

\* C14: the streak counts consecutive calendar days with at least one
\* completed session: a day on which the app is opened but no exercise is
\* completed does not extend the streak.  Every completed exercise credits
\* XP (gain_xp adds at least the streak bonus), so as long as xp is 0 no
\* session has been completed on any day, and the streak can count no day
\* but the current one.
C14_StreakNeedsSession == player.xp = 0 => player.streak <= 1

----------------------------------------------------------------------------
(* Sessions of a world entered with play_world.                            *)

\* C15: when a session of world i ends, world_unlocks[i] is incremented
\* exactly when the normalized score exceeds the world's threshold (70% for
\* memory, 65% for perspective, 80 for logic, 70 for prompt), and is left as
\* it was otherwise.
C15_UnlockOnSuccess ==
    [][LET \* this step ends a session of the exercise shown in view
           WorldSessionEnds(view, mode) ==
               /\ current_view = view
               /\ current_challenge.mode = mode
               /\ current_view' = "results_summary"
           \* 1 if the flag holds, else 0
           Incr(success) == IF success THEN 1 ELSE 0
       IN
       /\ WorldSessionEnds("memory_boost_game", "memory_boost") =>
             player'.world_unlocks[0]
                 = player.world_unlocks[0] + Incr(Success(current_challenge'))
       /\ WorldSessionEnds("view_switch_game", "view_switch") =>
             player'.world_unlocks[1]
                 = player.world_unlocks[1] + Incr(Success(current_challenge'))
       /\ WorldSessionEnds("step_logic_game", "step_logic") =>
             player'.world_unlocks[2]
                 = player.world_unlocks[2] + Incr(Success(current_challenge'))
       /\ \A text \in TextInputs :
             (/\ WorldSessionEnds("ai_play_game", "ai_play")
              /\ ~IsBlank(text)
              /\ Becomes(Submit(text, ai_play_end(ScriptRun, text))))
             => player'.world_unlocks[3]
                    = player.world_unlocks[3] + Incr(PromptSuccess(text))]_vars

\* C16: world_unlocks[i] never decreases, and it changes only by +1, in a
\* call of advance_world_level for world i with success true; every other
\* operation, and the call with success false, leaves it as it was.
C16_UnlocksOnlyAdvance ==
    [][\A i \in Worlds :
          /\ player'.world_unlocks[i] >= player.world_unlocks[i]
          /\ player'.world_unlocks[i] # player.world_unlocks[i] =>
                /\ last' = AdvanceCall(i, TRUE)
                /\ player'.world_unlocks[i] = player.world_unlocks[i] + 1]_vars

\* A world advanced twice, the other operations having acted since the
\* start: xp gained, a world played, a daily challenge completed and the
\* streak updated on the second day.
C16_Witness ==
    /\ last = AdvanceCall(1, TRUE)
    /\ player.world_unlocks[1] = 2
    /\ player.world_unlocks[0] = 0
    /\ player.xp > 0
    /\ "attempts_remaining" \in DOMAIN player
    /\ "is_daily" \in DOMAIN current_challenge
    /\ ~current_challenge.is_daily
    /\ player.streak = 2

\* C17: advance_world_level with success true starts the boss arena (view
\* boss_arena_game, for that world) exactly when the incremented level is a
\* multiple of 3, and shows the results summary otherwise; with success false
\* it changes no level and shows the results summary.
C17_BossEveryThird ==
    [][\A w \in Worlds :
          /\ last' = AdvanceCall(w, TRUE) =>
                IF player'.world_unlocks[w] % 3 = 0
                THEN /\ current_view' = "boss_arena_game"
                     /\ current_challenge'.mode = "boss_arena"
                     /\ current_challenge'.world_index = w
                     /\ current_challenge'.challenge_stage = 0
                ELSE /\ current_view' = "results_summary"
                     /\ current_challenge' = current_challenge
          /\ last' = AdvanceCall(w, FALSE) =>
                /\ player'.world_unlocks = player.world_unlocks
                /\ current_view' = "results_summary"
                /\ current_challenge' = current_challenge]_vars

\* World 2 has reached level 3 and its boss arena has begun.
C17_Witness ==
    /\ last = AdvanceCall(2, TRUE)
    /\ player.world_unlocks[2] = 3
    /\ current_view = "boss_arena_game"
    /\ current_challenge.world_index = 2

----------------------------------------------------------------------------
(* Steps of the boss arena.                                                *)

\* C18: in the boss arena the memory, perspective and meta-cognition
\* sub-scores lie in 0..50 each, the final total is min(200, sum + 50) and
\* lies in 50..200, and gain_xp is called with that total: xp grows by it,
\* by the streak bonus and by the 50 of each badge added.  The memory
\* sub-score and the sum are floats; the sum with the bonus is a whole
\* number, so that int() takes nothing from the total.
C18_BossScores ==
    [][LET \* this step is a call of boss_arena_next that leaves stage from for stage to
           BossStage(from, to) ==
               /\ current_view = "boss_arena_game"
               /\ current_challenge.challenge_stage = from
               /\ current_challenge'.challenge_stage = to
       IN
       /\ BossStage(0, 1) =>
             (\/ FloatFloor(current_challenge'.score) \in 0..49
              \/ current_challenge'.score = FloatDiv(50, 1))
       /\ BossStage(1, 3) =>
             LET sum   == FloatPlus(current_challenge'.score, 50)
                 total == Min(200, FloatFloor(sum))
             IN  /\ (\/ FloatFloor(current_challenge.score) \in 0..49
                     \/ current_challenge.score = FloatDiv(50, 1))
                 /\ LET before == FloatFloor(current_challenge.score)
                        after  == FloatFloor(current_challenge'.score)
                    IN  \E perspective_score, meta_score \in 0..50 :
                           after = before + perspective_score + meta_score
                 /\ sum = FloatDiv(FloatFloor(sum), 1)
                 /\ total \in 50..200
                 /\ current_view' = "results_summary"
                 /\ player'.xp = player.xp + total + player'.streak * 10
                                    + 50 * BadgesAdded]_vars

\* An arena ended with 50 in each stage: total 200 and the streak bonus
\* credited, Cognitive Champion won, and level 5 reached with its badge.
C18_Witness ==
    /\ current_view = "results_summary"
    /\ current_challenge.challenge_stage = 3
    /\ current_challenge.score = FloatDiv(150, 1)
    /\ player.xp = 200 + 50 + 200 + 10 + 50
    /\ player.badges = <<"Cognitive Champion", "Level 5 Master">>

\* C19: the boss arena takes a separate round for each of memory,
\* perspective and meta-cognition: boss_arena_next takes the arena through
\* its rounds, no call of it raising, and the call that scores the
\* perspective response leaves the arena open at stage 2, having added the
\* perspective score only.
C19_SeparateRounds ==
    [][(current_view = "boss_arena_game" /\ raised = "")
       => /\ raised' = ""
          /\ (/\ current_challenge.challenge_stage = 1
              /\ current_challenge'.challenge_stage # 1)
             => /\ current_challenge'.challenge_stage = 2
                /\ current_view' = "boss_arena_game"
                /\ FloatFloor(current_challenge'.score)
                       - FloatFloor(current_challenge.score) \in 0..50]_vars

----------------------------------------------------------------------------
(* Submissions of a text that is too short.                                *)

\* This step leaves the player's xp, level, badges and high scores alone.
ProgressKept ==
    /\ player'.xp = player.xp
    /\ player'.level = player.level
    /\ player'.badges = player.badges
    /\ player'.high_scores = player.high_scores

\* C20: a response that is too short (a perspective text or a prompt under
\* 10 characters, a reflection under 15) is rejected with no state mutation:
\* its submission leaves the exercise score and the player's xp, level,
\* badges and high scores as they were.
C20_ShortRejected ==
    [][\A text \in TextInputs :
          /\ (/\ current_view = "view_switch_game"
              /\ current_challenge.current_view_index > 0
              /\ Len(text) < 10
              /\ Becomes(Submit(text, view_switch_next(ScriptRun, text))))
             => /\ ProgressKept
                /\ current_challenge'.score = current_challenge.score
          /\ (/\ current_view = "ai_play_game"
              /\ Len(text) < 10
              /\ Becomes(Submit(text, ai_play_end(ScriptRun, text))))
             => /\ ProgressKept
                /\ current_view' = "ai_play_game"
          /\ (/\ current_view = "meta_cognition_game"
              /\ current_challenge.current_mode_index > 0
              /\ Len(text) < 15
              /\ Becomes(Submit(text, meta_cognition_next(ScriptRun, text))))
             => /\ ProgressKept
                /\ current_challenge'.total_score = current_challenge.total_score]_vars

----------------------------------------------------------------------------
(* The N-back exercise.                                                    *)

\* C21: no N-back step crashes: memory_boost_next_trial and boss_arena_next
\* never index outside pos_hist or let_hist, so no trial submission raises
\* IndexError.
C21_NoNBackCrash == raised # "IndexError"

\* C22: a trial of the memory exercise is scored against the stimulus n steps
\* before the current one: the truth for position (letter) holds iff that
\* stimulus exists and is the same; the call adds 5 to the score if both
\* claims of the user equal the truths, 2 if exactly one does, 0 otherwise.
C22_TrialScored ==
    [][\A pos \in StimPos, let \in StimLet, user_pos \in BOOLEAN, user_let \in BOOLEAN :
          LET c == current_challenge
              truth(hist) == /\ Len(hist) > c.n
                             /\ hist[Len(hist) - c.n] = hist[Len(hist)]
              pos_ok == user_pos = truth(c.pos_hist)
              let_ok == user_let = truth(c.let_hist)
              points == IF pos_ok /\ let_ok THEN 5
                        ELSE IF pos_ok \/ let_ok THEN 2 ELSE 0
          IN  (/\ current_view = "memory_boost_game"
               /\ c.current_trial > 0
               /\ Becomes(AfterCallback(
                      memory_boost_next_trial(Clear, user_pos, user_let, pos, let))))
              => current_challenge'.score = c.score + points]_vars

\* C23: a memory session terminates after trials + 1 calls: each call of
\* memory_boost_next_trial either shows the next trial (current_trial grows
\* by one) or, once `trials` trials are shown, ends the session with a score
\* of at most 5 * trials, xp credited and the view results_summary.
C23_MemoryTerminates ==
    [][\A pos \in StimPos, let \in StimLet, user_pos \in BOOLEAN, user_let \in BOOLEAN :
          LET c == current_challenge
          IN  (/\ current_view = "memory_boost_game"
               /\ Becomes(AfterCallback(
                      memory_boost_next_trial(Clear, user_pos, user_let, pos, let))))
              => IF c.current_trial < c.trials
                 THEN /\ current_view' = "memory_boost_game"
                      /\ current_challenge'.current_trial = c.current_trial + 1
                 ELSE /\ current_view' = "results_summary"
                      /\ current_challenge'.score <= 5 * c.trials
                      /\ player'.xp > player.xp]_vars

----------------------------------------------------------------------------
(* The scores of the text exercises.                                       *)

\* C24: a perspective response of at least 10 characters scores 10, plus 5
\* if it has more than 15 words, plus 5 if it contains any word of the set
\* {because, cost, risk, benefit, therefore, however, opportunity}; the score
\* of one perspective never exceeds 20.
C24_ViewScore ==
    [][\A text \in ScoreTexts :
          (/\ current_view = "view_switch_game"
           /\ current_challenge.current_view_index > 0
           /\ Len(text) >= 10
           /\ Becomes(view_switch_next(Session, text)))
          => LET points == current_challenge'.score - current_challenge.score
             IN  /\ points = 10 + (IF WordCount(text) > 15 THEN 5 ELSE 0)
                               + (IF ContainsAny(lower(text),
                                        Strs(<<"because", "cost", "risk", "benefit",
                                          "therefore", "however", "opportunity">>))
                                  THEN 5 ELSE 0)
                 /\ points <= 20]_vars

\* C24 as the code has it: a perspective response of at least 10 characters
\* scores 10, plus 5 if it has more than 15 words, plus 5 if it contains one
\* of because, therefore, however, plus 5 if it contains one of cost,
\* benefit, risk, opportunity; the score of one perspective is at most 25.
C24_ViewScoreTwoGroups ==
    [][\A text \in ScoreTexts :
          (/\ current_view = "view_switch_game"
           /\ current_challenge.current_view_index > 0
           /\ Len(text) >= 10
           /\ Becomes(view_switch_next(Session, text)))
          => LET points == current_challenge'.score - current_challenge.score
             IN  /\ points = 10 + (IF WordCount(text) > 15 THEN 5 ELSE 0)
                               + (IF ContainsAny(lower(text),
                                        Strs(<<"because", "therefore", "however">>))
                                  THEN 5 ELSE 0)
                               + (IF ContainsAny(lower(text),
                                        Strs(<<"cost", "benefit", "risk", "opportunity">>))
                                  THEN 5 ELSE 0)
                 /\ points <= 25]_vars

\* Two perspectives answered: one with a word of each group (20), one with
\* more than 15 words besides (25).
C24_Witness ==
    /\ current_view = "view_switch_game"
    /\ current_challenge.responses = 2
    /\ current_challenge.score = 45

\* C25: a riddle step scores 10 only if its text is longer than 5 characters,
\* plus 5 for each expected keyword phrase found in it, plus 3 if it contains
\* a sequencing word; the base score of the session is the sum over the steps.
C25_StepScore ==
    [][\A text \in ScoreTexts :
          (/\ current_view = "step_logic_game"
           /\ current_challenge.current_step > 0
           /\ Becomes(step_logic_next(Session, text)))
          => LET keys  == current_challenge.solution_keys
                 found == {i \in 1..Len(keys) : Contains(lower(text), keys[i])}
             IN  current_challenge'.steps_score =
                     current_challenge.steps_score
                     + (IF Len(text) > 5 THEN 10 ELSE 0)
                     + 5 * Cardinality(found)
                     + (IF ContainsAny(lower(text),
                              Strs(<<"then", "next", "after", "first", "second">>))
                        THEN 3 ELSE 0)]_vars

\* C25 as the code has it: a riddle step scores 10 whatever its length, plus
\* 5 for each expected keyword phrase found in it, plus 3 if it contains a
\* sequencing word; the base score of the session is the sum over the steps.
C25_StepScoreAnyLength ==
    [][\A text \in ScoreTexts :
          (/\ current_view = "step_logic_game"
           /\ current_challenge.current_step > 0
           /\ Becomes(step_logic_next(Session, text)))
          => LET keys  == current_challenge.solution_keys
                 found == {i \in 1..Len(keys) : Contains(lower(text), keys[i])}
             IN  current_challenge'.steps_score =
                     current_challenge.steps_score
                     + 10
                     + 5 * Cardinality(found)
                     + (IF ContainsAny(lower(text),
                              Strs(<<"then", "next", "after", "first", "second">>))
                        THEN 3 ELSE 0)]_vars

\* Two steps answered: one of two characters (10) and one of twelve with a
\* key and a sequencing word (18).
C25_Witness ==
    /\ current_view = "step_logic_game"
    /\ current_challenge.responses = 2
    /\ current_challenge.steps_score = 28

\* C26: the key bonus of a riddle counts the distinct expected keywords hit
\* over the whole session, so key_hits never exceeds the number of expected
\* keywords and the bonus (key_hits / keywords) * 50 lies in 0..50.
C26_DistinctKeyHits ==
    "key_hits" \in DOMAIN current_challenge
    => LET nkeys == Len(current_challenge.solution_keys)
           bonus == IF nkeys > 0
                    THEN (current_challenge.key_hits * 50) \div nkeys ELSE 0
       IN  /\ current_challenge.key_hits <= nkeys
           /\ bonus \in 0..50

\* C27: the prompt score is the sum of fixed points per category: 30 each
\* for systematicity, role specificity and output format, 15 each for
\* constraint clarity and abstraction, and a creativity bonus of at most 20,
\* each category counted iff one of its trigger phrases occurs; the total
\* lies in 0..150, and a prompt with "act as an expert", "format ... table"
\* and "step by step" is non-zero in role, format and systematicity.
C27_PromptScore ==
    [][\A prompt \in ScoreTexts :
          (/\ current_view = "ai_play_game"
           /\ Len(prompt) >= 10
           /\ Becomes(ai_play_end(Session, prompt)))
          => LET low == lower(prompt)
                 hit(words, pts) == IF ContainsAny(low, words) THEN pts ELSE 0
                 fixed == hit(Strs(<<"step", "first", "then", "next", "finally",
                                "chain of thought">>), 30)
                          + hit(Strs(<<"as a", "act as", "you are", "expert",
                                  "specialist">>), 30)
                          + hit(Strs(<<"table", "format", "json", "outline", "bullet",
                                  "structure">>), 30)
                          + hit(Strs(<<"constraint", "limit", "within", "boundary">>), 15)
                          + hit(Strs(<<"fundamental", "core principle", "abstract",
                                  "essence">>), 15)
                 total == player'.high_scores[3]
             IN  /\ total \in 0..150
                 /\ total - fixed \in 0..20
                 /\ total - fixed > 0
                      <=> ContainsAny(low, Strs(<<"metaphor", "analogy", "unconventional",
                                             "creative", "innovative">>))
                 /\ (Contains(low, Str("act as an expert")) /\ Contains(low, Str("format"))
                     /\ Contains(low, Str("table")) /\ Contains(low, Str("step by step")))
                    => total >= 90]_vars

\* C27 as the code has it: the creativity bonus is 10 for a prompt of more
\* than 30 words plus 20 for one of its trigger words, so at most 30; with
\* the fixed points of the other five categories the total is their sum, at
\* most 150, and the prompt of the scenario scores in role, format and
\* systematicity.
C27_PromptScoreCreative30 ==
    [][\A prompt \in ScoreTexts :
          (/\ current_view = "ai_play_game"
           /\ Len(prompt) >= 10
           /\ Becomes(ai_play_end(Session, prompt)))
          => LET low == lower(prompt)
                 hit(words, pts) == IF ContainsAny(low, words) THEN pts ELSE 0
                 fixed == hit(Strs(<<"step", "first", "then", "next", "finally",
                                "chain of thought">>), 30)
                          + hit(Strs(<<"as a", "act as", "you are", "expert",
                                  "specialist">>), 30)
                          + hit(Strs(<<"table", "format", "json", "outline", "bullet",
                                  "structure">>), 30)
                          + hit(Strs(<<"constraint", "limit", "within", "boundary">>), 15)
                          + hit(Strs(<<"fundamental", "core principle", "abstract",
                                  "essence">>), 15)
                 creativity == (IF WordCount(prompt) > 30 THEN 10 ELSE 0)
                               + hit(Strs(<<"metaphor", "analogy", "unconventional",
                                       "creative", "innovative">>), 20)
                 total == player'.high_scores[3]
             IN  /\ total = fixed + creativity
                 /\ creativity \in 0..30
                 /\ total \in 0..150
                 /\ (Contains(low, Str("act as an expert")) /\ Contains(low, Str("format"))
                     /\ Contains(low, Str("table")) /\ Contains(low, Str("step by step")))
                    => total >= 90]_vars

\* A prompt with a word of every category and more than 30 words was scored:
\* 120 for the five fixed categories and 30 for creativity.
C27_Witness ==
    /\ current_view = "results_summary"
    /\ "target" \in DOMAIN current_challenge
    /\ player.high_scores[3] = 150
    /\ player.badges = <<"Prompt God">>

\* C28: a meta-cognition response scores base 10 if its length is at most
\* 15 characters and base 25 otherwise, plus 10 if the keyword set of the
\* mode being answered matches; each mode score lies in 0..35 and the session
\* total is the sum over exactly 3 modes, at most 105.
C28_MetaScore ==
    [][\A text \in ScoreTexts :
          (/\ current_view = "meta_cognition_game"
           /\ current_challenge.current_mode_index > 0
           /\ Becomes(meta_cognition_next(Session, text)))
          => LET mode == current_challenge.selected_modes[
                             current_challenge.current_mode_index]
                 words == CASE mode = "white_room" -> Strs(<<"abstract", "essence", "core">>)
                            [] mode = "recursive" -> Strs(<<"break down", "sub-problem", "step">>)
                            [] mode = "hypothesis_driven" -> Strs(<<"test", "validate", "assume">>)
                            [] mode = "multi_modal" -> Strs(<<"connect", "cross", "domain">>)
                 bonus == IF ContainsAny(lower(text), words) THEN 10 ELSE 0
                 points == current_challenge'.total_score
                           - current_challenge.total_score
             IN  /\ points = (IF Len(text) <= 15 THEN 10 ELSE 25) + bonus
                 /\ points \in 0..35
                 /\ Len(current_challenge.selected_modes) = 3
                 /\ current_challenge'.total_score <= 105]_vars

\* C28 as the code has it: a meta-cognition response of fewer than 15
\* characters scores 15 with no keyword bonus; one of 15 characters or more
\* scores 25, plus 10 if the keyword set of the mode being answered matches;
\* each mode score lies in 0..35 and the session total is the sum over
\* exactly 3 modes, at most 105.
C28_MetaScoreShort15 ==
    [][\A text \in ScoreTexts :
          (/\ current_view = "meta_cognition_game"
           /\ current_challenge.current_mode_index > 0
           /\ Becomes(meta_cognition_next(Session, text)))
          => LET mode == current_challenge.selected_modes[
                             current_challenge.current_mode_index]
                 words == CASE mode = "white_room" -> Strs(<<"abstract", "essence", "core">>)
                            [] mode = "recursive" -> Strs(<<"break down", "sub-problem", "step">>)
                            [] mode = "hypothesis_driven" -> Strs(<<"test", "validate", "assume">>)
                            [] mode = "multi_modal" -> Strs(<<"connect", "cross", "domain">>)
                 bonus == IF ContainsAny(lower(text), words) THEN 10 ELSE 0
                 points == current_challenge'.total_score
                           - current_challenge.total_score
             IN  /\ points = (IF Len(text) < 15 THEN 15 ELSE 25 + bonus)
                 /\ points \in 0..35
                 /\ Len(current_challenge.selected_modes) = 3
                 /\ current_challenge'.total_score <= 105]_vars

\* The modes multi_modal, white_room and recursive answered and the session
\* ended: two reflections of fewer than 15 characters (15 each) and one of
\* 15 or more without a keyword of its mode (25).
C28_Witness ==
    /\ current_view = "results_summary"
    /\ "total_score" \in DOMAIN current_challenge
    /\ "selected_modes" \in DOMAIN current_challenge
    /\ current_challenge.selected_modes = <<"multi_modal", "white_room", "recursive">>
    /\ current_challenge.responses = 3
    /\ current_challenge.total_score = 55

----------------------------------------------------------------------------
(* The daily challenge and the loaded record.                              *)

\* C29: the daily challenge is a function of the calendar date alone: a call
\* of daily_challenge_init selects the challenge type and the scenario,
\* riddle or target that the date of the call determines, whatever the
\* player and whatever was drawn before.
C29_DailyByDate ==
    [][(/\ current_view = "main_menu"
        /\ daily_seed \in DailySeeds
        /\ today \in DailySeeds
        /\ Becomes(AfterCallback(daily_challenge_init(Clear))))
       => current_challenge' =
              daily_challenge_init([Clear EXCEPT !.daily_seed = today])
                  .current_challenge]_vars

\* C30: the record in the session after a load has every one of the nine
\* fields of a player (those the file lacks filled with their defaults), and
\* no later operation fails on a missing field.
C30_LoadFillsDefaults ==
    /\ {"name", "xp", "level", "streak", "last_play", "high_scores", "badges",
         "world_unlocks", "total_sessions"} \subseteq DOMAIN player
    /\ raised # "KeyError"

----------------------------------------------------------------------------
(* The record and the views of the app.                                    *)

\* C31: from the default record on, the player record has exactly the nine
\* fields name, xp, level, streak, last_play, high_scores, badges,
\* world_unlocks and total_sessions in every reachable state: no operation
\* adds or removes a key, so the exported save holds exactly those fields.
C31_NineFields ==
    DOMAIN player = {"name", "xp", "level", "streak", "last_play", "high_scores",
                     "badges", "world_unlocks", "total_sessions"}

C33_BlankNeverScored ==
    [][/\ (current_view = "view_switch_game"
           /\ current_challenge.current_view_index = 0
           /\ Becomes(AfterCallback(view_switch_next(Clear, <<>>))))
          => /\ current_challenge'.responses = 0
             /\ current_challenge'.score = 0
             /\ current_challenge'.current_view_index = 1
       /\ (current_view = "step_logic_game"
           /\ current_challenge.current_step = 0
           /\ Becomes(AfterCallback(step_logic_next(Clear, <<>>))))
          => /\ current_challenge'.responses = 0
             /\ current_challenge'.steps_score = 0
             /\ current_challenge'.key_hits = 0
             /\ current_challenge'.current_step = 1
       /\ (current_view = "meta_cognition_game"
           /\ current_challenge.current_mode_index = 0
           /\ Becomes(AfterCallback(meta_cognition_next(Clear, <<>>))))
          => /\ current_challenge'.responses = 0
             /\ current_challenge'.total_score = 0
             /\ current_challenge'.current_mode_index = 1
       /\ \A text \in {t \in TextInputs : IsBlank(t)} :
             /\ (current_view = "view_switch_game"
                 /\ current_challenge.current_view_index > 0
                 /\ Becomes(Submit(text, view_switch_next(ScriptRun, text))))
                => current_challenge' = current_challenge
             /\ (current_view = "step_logic_game"
                 /\ current_challenge.current_step > 0
                 /\ Becomes(Submit(text, step_logic_next(ScriptRun, text))))
                => current_challenge' = current_challenge
             /\ (current_view = "meta_cognition_game"
                 /\ current_challenge.current_mode_index > 0
                 /\ Becomes(Submit(text, meta_cognition_next(ScriptRun, text))))
                => current_challenge' = current_challenge]_vars

\* A riddle was started on one day and a blank step submitted on the next:
\* the script ran (the streak counts the new day) and no step was scored.
C33_Witness ==
    /\ current_view = "step_logic_game"
    /\ current_challenge.current_step = 1
    /\ current_challenge.responses = 0
    /\ current_challenge.steps_score = 0
    /\ today # StartDate
    /\ player.last_play = today

\* C34: a view-switch, step-logic or meta-cognition session scores exactly
\* one response per prompt shown (num_views, num_steps, or 3 responses): the
\* start call scores nothing, while prompt k is shown k - 1 responses are
\* scored, and the session ends on the call that scores the last response,
\* which calls gain_xp once (xp grows by the score, the streak bonus and 50
\* for each badge added) and sets the view to results_summary.
C34_OneResponsePerPrompt ==
    [][(current_view \in {"view_switch_game", "step_logic_game", "meta_cognition_game"})
       => LET c   == current_challenge
              d   == current_challenge'
              idx == CASE current_view = "view_switch_game" -> c.current_view_index
                       [] current_view = "step_logic_game" -> c.current_step
                       [] current_view = "meta_cognition_game" -> c.current_mode_index
              num == CASE current_view = "view_switch_game" -> c.num_views
                       [] current_view = "step_logic_game" -> c.num_steps
                       [] current_view = "meta_cognition_game" -> 3
              pts == CASE current_view = "view_switch_game" ->
                            Min(100, IntPercent(d.score, c.num_views * c.max_per_view))
                       [] current_view = "step_logic_game" ->
                            Min(150, d.steps_score
                                     + (d.key_hits * 50) \div Len(c.solution_keys))
                       [] current_view = "meta_cognition_game" -> d.total_score
          IN   /\ idx <= num
               /\ c.responses = (IF idx = 0 THEN 0 ELSE idx - 1)
               /\ (idx = 0) => (d.responses = 0)
               /\ d.responses \in {c.responses, c.responses + 1}
               /\ current_view' \in {current_view, "results_summary"}
               /\ (current_view' = "results_summary")
                     <=> (idx = num /\ d.responses = num)
               /\ (current_view' = "results_summary")
                     => (player'.xp = player.xp + pts + StreakBonus(player'.streak)
                                          + 50 * BadgesAdded)
               /\ (current_view' = current_view) => (player'.xp = player.xp)
      ]_vars

\* A riddle session has ended with as many responses scored as steps shown.
C34_Witness ==
    /\ current_view = "results_summary"
    /\ "num_steps" \in DOMAIN current_challenge
    /\ current_challenge.responses = current_challenge.num_steps
    /\ current_challenge.current_step = current_challenge.num_steps
    /\ player.xp > 0

\* C35: once initialize_session_state has run, streak >= 1 and last_play
\* equals today whenever an exercise calls gain_xp, so every gain_xp call
\* made by the app credits at least pts + 10 XP.  (An exercise calls gain_xp
\* in the step that ends its session; pts is computed from the challenge
\* that step leaves and, for a prompt, from the prompt.)
C35_BonusAtLeast10 ==
    [][LET c == current_challenge
           d == current_challenge'
           Credited(pts) ==
               /\ player'.streak >= 1
               /\ player'.last_play = today
               /\ player'.xp >= player.xp + pts + 10
       IN  /\ \A prompt \in TextInputs :
                (/\ current_view = "ai_play_game"
                 /\ ~IsBlank(prompt)
                 /\ Becomes(Submit(prompt, ai_play_end(ScriptRun, prompt))))
                => Credited(IF Len(prompt) < 10 THEN 20
                            ELSE evaluate_prompt_advanced(prompt))
           /\ (/\ current_view \in {"memory_boost_game", "view_switch_game",
                                    "step_logic_game", "meta_cognition_game",
                                    "boss_arena_game"}
               /\ current_view' = "results_summary")
              => Credited(
                    CASE current_view = "memory_boost_game" ->
                            IntPercentTwice(d.score, d.trials * 5)
                      [] current_view = "view_switch_game" ->
                            Min(100, IntPercent(d.score, c.num_views * c.max_per_view))
                      [] current_view = "step_logic_game" ->
                            Min(150, d.steps_score
                                     + (d.key_hits * 50) \div Len(c.solution_keys))
                      [] current_view = "meta_cognition_game" -> d.total_score
                      [] current_view = "boss_arena_game" ->
                            Min(200, FloatFloor(FloatPlus(d.score, 50))))]_vars

\* C35 as the code has it: once initialize_session_state has run, last_play
\* equals today whenever an exercise calls gain_xp, and the call credits
\* pts + 10 * streak (and 50 for each badge added).  In a session begun with
\* "Start New Game" streak >= 1 in every state.  In a session begun with
\* "Load Game" the streak at a gain_xp call is below 1 only for a record
\* that came with that streak and the day as its last_play, which
\* update_streak leaves as it is: with streak 0 the credit is pts alone.
C35_BonusByStreak ==
    [][LET c == current_challenge
           d == current_challenge'
           Credited(pts) ==
               /\ player'.last_play = today
               /\ player'.xp = player.xp + pts + 10 * player'.streak
                                   + 50 * BadgesAdded
               /\ player'.streak < 1
                    => /\ last'.op = "handle_load_game"
                       /\ player'.streak = player.streak
                       /\ player.last_play = today
       IN  /\ \A prompt \in TextInputs :
                (/\ current_view = "ai_play_game"
                 /\ ~IsBlank(prompt)
                 /\ Becomes(Submit(prompt, ai_play_end(ScriptRun, prompt))))
                => Credited(IF Len(prompt) < 10 THEN 20
                            ELSE evaluate_prompt_advanced(prompt))
           /\ (/\ current_view \in {"memory_boost_game", "view_switch_game",
                                    "step_logic_game", "meta_cognition_game",
                                    "boss_arena_game"}
               /\ current_view' = "results_summary")
              => Credited(
                    CASE current_view = "memory_boost_game" ->
                            IntPercentTwice(d.score, d.trials * 5)
                      [] current_view = "view_switch_game" ->
                            Min(100, IntPercent(d.score, c.num_views * c.max_per_view))
                      [] current_view = "step_logic_game" ->
                            Min(150, d.steps_score
                                     + (d.key_hits * 50) \div Len(c.solution_keys))
                      [] current_view = "meta_cognition_game" -> d.total_score
                      [] current_view = "boss_arena_game" ->
                            Min(200, FloatFloor(FloatPlus(d.score, 50))))
           /\ (last'.op = "none" /\ DOMAIN player' # {}) => player'.streak >= 1]_vars

\* A record loaded with streak 0 on its last_play day has played a prompt of
\* two characters: 20 XP and no streak bonus.
C35_Witness ==
    /\ last.op = "handle_load_game"
    /\ current_view = "results_summary"
    /\ current_challenge.mode = "ai_play"
    /\ player.streak = 0
    /\ player.last_play = today
    /\ player.xp = 260

\* C36: current_view is always one of the eight views main dispatches
\* (main_menu, the six game views, results_summary); an exercise leaves its
\* game view only for results_summary, and the only transition out of
\* results_summary is go_to_menu, which sets main_menu and empties the game
\* log (the script run that follows logs the new day, if midnight has
\* passed).
C36_EightViews ==
    [][LET games == {"memory_boost_game", "view_switch_game", "step_logic_game",
                        "ai_play_game", "meta_cognition_game", "boss_arena_game"}
          IN  /\ current_view \in games \cup {"main_menu", "results_summary"}
              /\ current_view' \in games \cup {"main_menu", "results_summary"}
              /\ (current_view \in games /\ current_view' # current_view)
                    => current_view' = "results_summary"
              /\ (current_view = "main_menu" /\ current_view' # current_view)
                    => current_view' \in games
              /\ (current_view = "results_summary" /\ current_view' # current_view)
                    => /\ current_view' = "main_menu"
                       /\ Becomes(AfterCallback(go_to_menu(Clear)))
                       /\ game_output' = (IF player.last_play = today THEN 0 ELSE 1)
         ]_vars

\* Back at the menu after an exercise has ended on the same day: the log is
\* empty.
C36_Witness ==
    /\ current_view = "main_menu"
    /\ game_output = 0
    /\ current_challenge # NoChallenge
    /\ player.xp > 0

\* C37: the boss arena is started from the main menu only, and only when
\* the player's level is at least 3; the level never decreases, so once the
\* arena is unlocked it stays unlocked.
C37_BossFromLevel3 ==
    [][/\ (current_view # "boss_arena_game" /\ current_view' = "boss_arena_game")
          => /\ current_view = "main_menu"
             /\ player.level >= 3
       /\ player'.level >= player.level
       /\ player.level >= 3 => player'.level >= 3]_vars

\* The boss arena has been started by a player of level 3.
C37_Witness ==
    /\ current_view = "boss_arena_game"
    /\ current_challenge.mode = "boss_arena"
    /\ current_challenge.challenge_stage = 0
    /\ player.level = 3

\* C38: during a memory session started with n in 2..5 the adaptive
\* difficulty keeps n within 2..5: n changes by at most 1 per call, only
\* when the trial counter is a positive multiple of 5, increasing only if
\* the cumulative accuracy (score / (5 * trials played)) is above 80% and
\* n < 5, and decreasing only if it is below 50% and n > 2.
C38_AdaptiveN ==
    [][(current_view = "memory_boost_game")
       => LET c == current_challenge
              d == current_challenge'
              t == c.current_trial
          IN   /\ c.n \in 2..5
               /\ d.n \in 2..5
               /\ d.n - c.n \in {-1, 0, 1}
               /\ (d.n # c.n) => (t > 0 /\ t % 5 = 0)
               /\ (d.n > c.n) => (d.score * 100 > 80 * (t * 5) /\ c.n < 5)
               /\ (d.n < c.n) => (d.score * 100 < 50 * (t * 5) /\ c.n > 2)
      ]_vars

\* A session begun at n = 3 with every trial missed has been lowered to
\* n = 2 at trial 5 and is at trial 6.
C38_Witness ==
    /\ current_view = "memory_boost_game"
    /\ current_challenge.trials = 21
    /\ current_challenge.n = 2
    /\ current_challenge.current_trial = 6
    /\ current_challenge.score = 0

====
